---- MODULE Spec2Model ----
(***************************************************************************)
(* A model of the directed-graph engine of Graph.hpp: c_GraphNode (the     *)
(* adjacency lists and their establish/sever operations), c_Graph (the     *)
(* constructor, idxMap, calcDegrees, optimizeCnts and the traversal entry  *)
(* points), c_SearchHeader (testAdd) and the recursive traversals.         *)
(*                                                                         *)
(* A node pointer is modelled by the node's index, which the constructor   *)
(* keeps unique within a graph; nullptr is a value that is no index.       *)
(* std::vector is a sequence; position i of the code is element i+1 here.  *)
(* vector::at() throws std::out_of_range past the end: an operation that   *)
(* throws leaves the lists as they were at the throw and reports threw.    *)
(*                                                                         *)
(* Reading node->index through a null node is undefined behaviour.  What   *)
(* the read does is the environment's choice, held in nullRead: the read   *)
(* faults and the process ends (SegFault), or it yields some identity and  *)
(* the code runs on with it.                                               *)
(*                                                                         *)
(* The traversals are modelled twice: as recursive operators that compute  *)
(* the returned vector, and, for the claims about termination, as a        *)
(* machine that runs them step by step on the call stack held in stack.    *)
(***************************************************************************)
EXTENDS Integers, Sequences, FiniteSets, TLC

VARIABLES indexes, raw_ptrs, nodeData, cnt_out, cnt_in, calc_cnts, count,
          degrees, searchHeader, passed, last, prev, before, ncalls, nullRead,
          stack

vars == <<indexes, raw_ptrs, nodeData, cnt_out, cnt_in, calc_cnts, count,
          degrees, searchHeader, passed, last, prev, before, ncalls, nullRead,
          stack>>

graphvars ==
    <<indexes, raw_ptrs, nodeData, cnt_out, cnt_in, calc_cnts, count, degrees>>

(***************************************************************************)
(* Bounds of the model.                                                    *)
(***************************************************************************)
\* descriptors of a graph of the wide traversal machine
MaxWideCnts == 4
\* descriptors of a graph of the stepping machine
MaxStepCnts == 3
\* descriptors of a graph, and calls, when traversal follows traversal
MaxAgainCnts == 3
MaxAgainCalls == 2
\* descriptors of a graph of the null-entry machine
MaxNullCnts == 3
\* identities of the traversal inputs are 0..MaxId
MaxId == 3
\* identities of the inputs of the mutation machine are 0..MaxMutId
MaxMutId == 2
\* longest connectionList handed to the constructor of the mutation machine
MaxCnts == 2
\* longest connectionList handed to the constructor of the traversal inputs
MaxTravCnts == 4
\* longest connectionList handed to the constructor of the sever machine
MaxSeverCnts == 4
\* number of calls made on a constructed graph
MaxCalls == 2
\* number of traversals run on a constructed graph of the traversal machine
MaxTravCalls == 1
\* descriptors of a connection list of the optimize machine
MaxOptCnts == 4
\* descriptors of a connection list of the construction machines
MaxConsCnts == 3
\* the constant of the constructor's break, scaled down
ScaledCeiling == 2
\* identities handed to a search header are 0..MaxHeaderId and HighId
MaxHeaderId == 3
\* number of testAdd calls made on a search header
MaxHeaderCalls == 5

(***************************************************************************)
(* Program constants.                                                      *)
(***************************************************************************)
nullptr == -1
\* the read through a null pointer that ends the process
SegFault == -2
\* The top of the uint32_t range, (uint32_t)(-1) = 4294967295.  TLC's integers
\* end at 2^31 - 1, so the top of the range is modelled by that value; the
\* model's identities and positions are small, and only the distance of the
\* reserved values from the top of the range matters.
UINT32_MAX == 2147483647
\* (uint32_t)(-1), what idxMap returns for an ID it does not hold
NotFound == UINT32_MAX
\* 4294967293, the second "not found" value the callers of idxMap compare with
NotFoundAlt == UINT32_MAX - 2
\* 4294967290: the constructor stops once a storage position reaches this
NodeCeiling == UINT32_MAX - 5
\* 4294967293: c_SearchHeader::min_idx starts above every supported index
MinIdxInit == UINT32_MAX - 2

Identity == 0 .. (MaxId + 1)

\* the vector without the element at position i (1-based): vector::erase
RemoveAt(s, i) == SubSeq(s, 1, i - 1) \o SubSeq(s, i + 1, Len(s))

InSeq(x, s) == \E k \in 1 .. Len(s) : s[k] = x

Occurrences(x, s) == Cardinality({k \in 1 .. Len(s) : s[k] = x})

\* position (1-based) of the first occurrence of x in s; 0 when there is none
FirstPos(x, s) ==
    IF InSeq(x, s)
    THEN CHOOSE k \in 1 .. Len(s) : s[k] = x /\ \A j \in 1 .. (k - 1) : s[j] # x
    ELSE 0

(***************************************************************************)
(* c_GraphNode                                                             *)
(***************************************************************************)
externalDegree(out, self) == Len(out[self])

internalDegree(in, self) == Len(in[self])

\* a mutant of establishCnt: the back-reference is pushed to the front
establishCnt_frontIn(out, in, self, other) ==
    IF (other # nullptr) /\ (other # self)
    THEN LET o2 == [out EXCEPT ![self] = Append(@, other)]
         IN [out |-> o2,
             in |-> [in EXCEPT ![other] = <<self>> \o @],
             ret |-> Len(o2[self])]
    ELSE [out |-> out, in |-> in, ret |-> Len(out[self])]

\* a mutant of establishCnt: other is not compared with this
establishCnt_selfLoop(out, in, self, other) ==
    IF other # nullptr
    THEN LET o2 == [out EXCEPT ![self] = Append(@, other)]
         IN [out |-> o2,
             in |-> [in EXCEPT ![other] = Append(@, self)],
             ret |-> Len(o2[self])]
    ELSE [out |-> out, in |-> in, ret |-> Len(out[self])]

establishCnt(out, in, self, other) ==
    IF (other # nullptr) /\ (other # self)
    THEN LET o2 == [out EXCEPT ![self] = Append(@, other)]
         IN [out |-> o2,
             in |-> [in EXCEPT ![other] = Append(@, self)],
             ret |-> Len(o2[self])]
    ELSE [out |-> out, in |-> in, ret |-> Len(out[self])]

\* The scan of severCnt(other): o is this->cnt_out, n is other->cnt_in, i the
\* loop counter; extnum and intnum are the sizes taken before the loop.
RECURSIVE severScan(_, _, _, _, _, _, _, _, _)
severScan(o, n, self, other, i, extnum, intnum, gotExt, gotInt) ==
    LET maxidx == IF extnum > intnum THEN extnum ELSE intnum
    IN  IF i >= maxidx
        THEN [o |-> o, n |-> n, threw |-> FALSE]
        ELSE IF (i < extnum /\ i >= Len(o)) \/ (i < intnum /\ i >= Len(n))
        THEN [o |-> o, n |-> n, threw |-> TRUE]
        ELSE LET tmpExt == IF i < extnum THEN o[i + 1] ELSE nullptr
                 tmpInt == IF i < intnum THEN n[i + 1] ELSE nullptr
                 o2 == IF tmpExt = other THEN RemoveAt(o, i + 1) ELSE o
                 n2 == IF tmpInt = self THEN RemoveAt(n, i + 1) ELSE n
                 gotExt2 == gotExt \/ (tmpExt = other)
                 gotInt2 == gotInt \/ (tmpInt = self)
             IN  IF gotExt2 /\ gotInt2
                 THEN [o |-> o2, n |-> n2, threw |-> FALSE]
                 ELSE severScan(o2, n2, self, other, i + 1, extnum, intnum,
                                gotExt2, gotInt2)

\* a mutant of severCnt: the back-reference in other->cnt_in is never erased
severCnt_outOnly(out, in, self, other) ==
    LET extnum == Len(out[self])
    IN  IF (other = nullptr) \/ (other = self) \/ ~InSeq(other, out[self])
        THEN [out |-> out, in |-> in, ret |-> extnum, threw |-> FALSE]
        ELSE [out |-> [out EXCEPT ![self] = RemoveAt(@, FirstPos(other, @))],
              in |-> in, ret |-> extnum - 1, threw |-> FALSE]

\* severCnt(c_GraphNode* other); ret is -1 when the call threw
severCnt(out, in, self, other) ==
    LET extnum == Len(out[self])
    IN  IF (other = nullptr) \/ (other = self)
        THEN [out |-> out, in |-> in, ret |-> extnum, threw |-> FALSE]
        ELSE LET intnum == Len(in[other])
                 r == severScan(out[self], in[other], self, other, 0,
                                extnum, intnum, FALSE, FALSE)
             IN  [out |-> [out EXCEPT ![self] = r.o],
                  in |-> [in EXCEPT ![other] = r.n],
                  ret |-> IF r.threw THEN -1 ELSE Len(r.o),
                  threw |-> r.threw]

\* severCnt(uint32_t index)
severCnt_index(out, in, self, index) ==
    LET extnum == Len(out[self])
    IN  IF index >= extnum
        THEN [out |-> out, in |-> in, ret |-> extnum, threw |-> FALSE]
        ELSE LET other == out[self][index + 1]
                 p == FirstPos(self, in[other])
                 n2 == IF p > 0 THEN RemoveAt(in[other], p) ELSE in[other]
                 o2 == RemoveAt(out[self], index + 1)
             IN  [out |-> [out EXCEPT ![self] = o2],
                  in |-> [in EXCEPT ![other] = n2],
                  ret |-> Len(o2), threw |-> FALSE]

traverseCnt(out, self, index) ==
    IF index >= Len(out[self]) THEN nullptr ELSE out[self][index + 1]

(***************************************************************************)
(* c_SearchHeader.  calls is not a member of the structure: it logs the    *)
(* evaluations of searchFunc made during the traversal that owns the       *)
(* header, each as <<previous node, tested node>>.                         *)
(***************************************************************************)
c_SearchHeader ==
    [visit_queue |-> <<>>, idx_visited |-> <<>>,
     min_idx |-> MinIdxInit, max_idx |-> 0, calls |-> <<>>]

\* a mutant of testAdd: an index above max_idx does not lower min_idx
testAdd_keepMin(h, index) ==
    IF index > h.max_idx
    THEN [h |-> [h EXCEPT !.max_idx = index, !.idx_visited = Append(@, index)],
          ok |-> TRUE]
    ELSE IF index < h.min_idx
    THEN [h |-> [h EXCEPT !.min_idx = index, !.idx_visited = Append(@, index)],
          ok |-> TRUE]
    ELSE IF index = h.max_idx \/ index = h.min_idx
    THEN [h |-> h, ok |-> FALSE]
    ELSE IF InSeq(index, h.idx_visited)
    THEN [h |-> h, ok |-> FALSE]
    ELSE [h |-> [h EXCEPT !.idx_visited = Append(@, index)], ok |-> TRUE]

\* testAdd: ok is the value returned, h the header after the call
testAdd(h, index) ==
    IF index > h.max_idx
    THEN [h |-> [h EXCEPT !.max_idx = index,
                          !.min_idx = IF index < @ THEN index ELSE @,
                          !.idx_visited = Append(@, index)],
          ok |-> TRUE]
    ELSE IF index < h.min_idx
    THEN [h |-> [h EXCEPT !.min_idx = index, !.idx_visited = Append(@, index)],
          ok |-> TRUE]
    ELSE IF index = h.max_idx \/ index = h.min_idx
    THEN [h |-> h, ok |-> FALSE]
    ELSE IF InSeq(index, h.idx_visited)
    THEN [h |-> h, ok |-> FALSE]
    ELSE [h |-> [h EXCEPT !.idx_visited = Append(@, index)], ok |-> TRUE]

\* The filter functions handed to the filtered traversals.  prv is the
\* previous node (nullptr for the root), node the tested one.
Filters == {"all", "even", "up"}

searchFunc(f, prv, node) ==
    CASE f = "all" -> TRUE
      [] f = "even" -> node % 2 = 0
      [] f = "up" -> node > prv

\* one evaluation of searchFunc: the header with the evaluation logged
Evaluated(h, prv, node) == [h EXCEPT !.calls = Append(@, <<prv, node>>)]

NotNull(x) == x # nullptr

(***************************************************************************)
(* The traversals.  out is the cnt_out of every node.  recurseHeader is    *)
(* <<>> for nullptr and <<h>> for a pointer to the header h; the result    *)
(* holds the returned vector and the header as the call left it (for the   *)
(* owning call, as it was when the call deleted it).                       *)
(***************************************************************************)
RECURSIVE devTraverseBfs(_, _, _)
RECURSIVE devTraverseBfs_Filt(_, _, _, _)
RECURSIVE devTraverseDfs(_, _, _)
RECURSIVE devTraverseDfs_Filt(_, _, _, _)

\* a mutant of bfsNeighbours: a recorded neighbour is not put on visit_queue
RECURSIVE bfsNeighbours_noQueue(_, _, _, _, _)
bfsNeighbours_noQueue(lst, i, degs, h, output_list) ==
    IF i >= degs
    THEN [header |-> h, output_list |-> output_list]
    ELSE LET node == lst[i + 1]
             t == testAdd(h, node)
         IN  IF node # nullptr /\ t.ok
             THEN bfsNeighbours_noQueue(lst, i + 1, degs, t.h, Append(output_list, node))
             ELSE bfsNeighbours_noQueue(lst, i + 1, degs,
                                        IF node # nullptr THEN t.h ELSE h, output_list)

\* the neighbour loop of devTraverseBfs over lst = start->cnt_out, from
\* position i (0-based) on
RECURSIVE bfsNeighbours(_, _, _, _, _)
bfsNeighbours(lst, i, degs, h, output_list) ==
    IF i >= degs
    THEN [header |-> h, output_list |-> output_list]
    ELSE LET node == lst[i + 1]
             t == testAdd(h, node)
         IN  IF node # nullptr /\ t.ok
             THEN bfsNeighbours(lst, i + 1, degs,
                                [t.h EXCEPT !.visit_queue = Append(@, node)],
                                Append(output_list, node))
             ELSE bfsNeighbours(lst, i + 1, degs,
                                IF node # nullptr THEN t.h ELSE h, output_list)

\* a mutant of bfsDequeue: the pending node taken is the last of visit_queue
RECURSIVE bfsDequeue_lifo(_, _, _)
bfsDequeue_lifo(out, h, dequeue) ==
    IF dequeue = <<>> /\ h.visit_queue # <<>>
    THEN LET handle == h.visit_queue[Len(h.visit_queue)]
             r == devTraverseBfs(out, handle,
                      <<[h EXCEPT !.visit_queue = SubSeq(@, 1, Len(@) - 1)]>>)
         IN  bfsDequeue_lifo(out, r.header, r.output_list)
    ELSE [header |-> h, dequeue |-> dequeue]

\* while (dequeue.empty() && !header->visit_queue.empty()) of devTraverseBfs
RECURSIVE bfsDequeue(_, _, _)
bfsDequeue(out, h, dequeue) ==
    IF dequeue = <<>> /\ h.visit_queue # <<>>
    THEN LET handle == Head(h.visit_queue)
             r == devTraverseBfs(out, handle, <<[h EXCEPT !.visit_queue = Tail(@)]>>)
         IN  bfsDequeue(out, r.header, r.output_list)
    ELSE [header |-> h, dequeue |-> dequeue]

\* the do ... while (!header->visit_queue.empty()) of devTraverseBfs
RECURSIVE bfsDoWhile(_, _, _, _, _)
bfsDoWhile(out, h, output_list, newqueue, owns_header) ==
    LET d == bfsDequeue(out, h, <<>>)
        got == SelectSeq(d.dequeue, NotNull)
        nq == newqueue \o got
        promote == owns_header /\ d.header.visit_queue = <<>> /\ nq # <<>>
        h2 == IF promote THEN [d.header EXCEPT !.visit_queue = nq] ELSE d.header
        nq2 == IF promote THEN <<>> ELSE nq
    IN  IF h2.visit_queue # <<>>
        THEN bfsDoWhile(out, h2, output_list \o got, nq2, owns_header)
        ELSE [header |-> h2, output_list |-> output_list \o got, newqueue |-> nq2]

devTraverseBfs(out, start, recurseHeader) ==
    IF start = nullptr
    THEN [output_list |-> <<>>,
          header |-> IF recurseHeader = <<>> THEN c_SearchHeader ELSE recurseHeader[1]]
    ELSE LET owns_header == recurseHeader = <<>>
             header == IF owns_header THEN c_SearchHeader ELSE recurseHeader[1]
             degs == externalDegree(out, start)
             t == testAdd(header, start)
             nb == bfsNeighbours(out[start], 0, degs, t.h,
                                 IF t.ok THEN <<start>> ELSE <<>>)
             w == bfsDoWhile(out, nb.header, nb.output_list, <<>>, owns_header)
         IN  IF owns_header
             THEN [output_list |-> w.output_list, header |-> w.header]
             ELSE [output_list |-> w.output_list,
                   header |-> IF w.newqueue # <<>>
                              THEN [w.header EXCEPT !.visit_queue = w.newqueue]
                              ELSE w.header]

\* a mutant of bfsNeighbours_Filt: a neighbour that searchFunc rejects is not
\* put on visit_queue
RECURSIVE bfsNeighbours_Filt_prune(_, _, _, _, _, _, _)
bfsNeighbours_Filt_prune(lst, start, searchFn, i, degs, h, output_list) ==
    IF i >= degs
    THEN [header |-> h, output_list |-> output_list]
    ELSE LET node == lst[i + 1]
             t == testAdd(h, node)
         IN  IF node # nullptr /\ t.ok
             THEN IF searchFunc(searchFn, start, node)
                  THEN bfsNeighbours_Filt_prune(lst, start, searchFn, i + 1, degs,
                           [Evaluated(t.h, start, node) EXCEPT
                               !.visit_queue = Append(@, node)],
                           Append(output_list, node))
                  ELSE bfsNeighbours_Filt_prune(lst, start, searchFn, i + 1, degs,
                           Evaluated(t.h, start, node), output_list)
             ELSE bfsNeighbours_Filt_prune(lst, start, searchFn, i + 1, degs,
                      IF node # nullptr THEN t.h ELSE h, output_list)

\* the neighbour loop of devTraverseBfs_Filt
RECURSIVE bfsNeighbours_Filt(_, _, _, _, _, _, _)
bfsNeighbours_Filt(lst, start, searchFn, i, degs, h, output_list) ==
    IF i >= degs
    THEN [header |-> h, output_list |-> output_list]
    ELSE LET node == lst[i + 1]
             t == testAdd(h, node)
         IN  IF node # nullptr /\ t.ok
             THEN bfsNeighbours_Filt(lst, start, searchFn, i + 1, degs,
                      [Evaluated(t.h, start, node) EXCEPT
                          !.visit_queue = Append(@, node)],
                      IF searchFunc(searchFn, start, node)
                      THEN Append(output_list, node) ELSE output_list)
             ELSE bfsNeighbours_Filt(lst, start, searchFn, i + 1, degs,
                      IF node # nullptr THEN t.h ELSE h, output_list)

RECURSIVE bfsDequeue_Filt(_, _, _, _)
bfsDequeue_Filt(out, searchFn, h, dequeue) ==
    IF dequeue = <<>> /\ h.visit_queue # <<>>
    THEN LET handle == Head(h.visit_queue)
             r == devTraverseBfs_Filt(out, handle, searchFn,
                                      <<[h EXCEPT !.visit_queue = Tail(@)]>>)
         IN  bfsDequeue_Filt(out, searchFn, r.header, r.output_list)
    ELSE [header |-> h, dequeue |-> dequeue]

RECURSIVE bfsDoWhile_Filt(_, _, _, _, _, _)
bfsDoWhile_Filt(out, searchFn, h, output_list, newqueue, owns_header) ==
    LET d == bfsDequeue_Filt(out, searchFn, h, <<>>)
        got == SelectSeq(d.dequeue, NotNull)
        nq == newqueue \o got
        promote == owns_header /\ d.header.visit_queue = <<>> /\ nq # <<>>
        h2 == IF promote THEN [d.header EXCEPT !.visit_queue = nq] ELSE d.header
        nq2 == IF promote THEN <<>> ELSE nq
    IN  IF h2.visit_queue # <<>>
        THEN bfsDoWhile_Filt(out, searchFn, h2, output_list \o got, nq2, owns_header)
        ELSE [header |-> h2, output_list |-> output_list \o got, newqueue |-> nq2]

devTraverseBfs_Filt(out, start, searchFn, recurseHeader) ==
    IF start = nullptr
    THEN [output_list |-> <<>>,
          header |-> IF recurseHeader = <<>> THEN c_SearchHeader ELSE recurseHeader[1]]
    ELSE LET owns_header == recurseHeader = <<>>
             header == IF owns_header THEN c_SearchHeader ELSE recurseHeader[1]
             degs == externalDegree(out, start)
             t == testAdd(header, start)
             asked == t.ok /\ owns_header
             h1 == IF asked THEN Evaluated(t.h, nullptr, start) ELSE t.h
             nb == bfsNeighbours_Filt(out[start], start, searchFn, 0, degs, h1,
                       IF asked /\ searchFunc(searchFn, nullptr, start)
                       THEN <<start>> ELSE <<>>)
             w == bfsDoWhile_Filt(out, searchFn, nb.header, nb.output_list, <<>>,
                                  owns_header)
         IN  IF owns_header
             THEN [output_list |-> w.output_list, header |-> w.header]
             ELSE [output_list |-> w.output_list,
                   header |-> IF w.newqueue # <<>>
                              THEN [w.header EXCEPT !.visit_queue = w.newqueue]
                              ELSE w.header]

\* node->index with no test of node: the index of a node, and for a null
\* node whatever the read through the null pointer does
nodeIndex(node) == IF node = nullptr THEN nullRead ELSE node

\* the neighbour loop of devTraverseDfs, from position i (0-based) on; fault
\* reports that a read through a null pointer ended the process
RECURSIVE dfsLoop(_, _, _, _, _, _)
dfsLoop(out, start, i, degs, h, output_list) ==
    IF i >= degs
    THEN [header |-> h, output_list |-> output_list, fault |-> FALSE]
    ELSE LET node == out[start][i + 1]
             index == nodeIndex(node)
             t == testAdd(h, index)
         IN  IF index = SegFault
             THEN [header |-> h, output_list |-> output_list, fault |-> TRUE]
             ELSE IF t.ok
             THEN LET r == devTraverseDfs(out, node, <<t.h>>)
                      ol == (output_list \o <<node>>) \o r.output_list
                  IN  IF r.fault
                      THEN [header |-> r.header, output_list |-> ol, fault |-> TRUE]
                      ELSE dfsLoop(out, start, i + 1, degs, r.header, ol)
             ELSE dfsLoop(out, start, i + 1, degs, t.h, output_list)

devTraverseDfs(out, start, recurseHeader) ==
    IF start = nullptr
    THEN [output_list |-> <<>>, fault |-> FALSE,
          header |-> IF recurseHeader = <<>> THEN c_SearchHeader ELSE recurseHeader[1]]
    ELSE LET owns_header == recurseHeader = <<>>
             header == IF owns_header THEN c_SearchHeader ELSE recurseHeader[1]
             degs == externalDegree(out, start)
             t == testAdd(header, start)
             r == dfsLoop(out, start, 0, degs, t.h,
                          IF t.ok THEN <<start>> ELSE <<>>)
         IN  [output_list |-> r.output_list, header |-> r.header, fault |-> r.fault]

\* a mutant of dfsRefilter: the returned nodes are taken over as they are
RECURSIVE dfsRefilter_keepAll(_, _, _, _, _, _)
dfsRefilter_keepAll(searchFn, node, dequeue, k, h, output_list) ==
    IF k > Len(dequeue)
    THEN [header |-> h, output_list |-> output_list]
    ELSE dfsRefilter_keepAll(searchFn, node, dequeue, k + 1, h,
                             Append(output_list, dequeue[k]))

\* for (i : dequeue) if (searchFunc(node, i)) output_list.push_back(i)
RECURSIVE dfsRefilter(_, _, _, _, _, _)
dfsRefilter(searchFn, node, dequeue, k, h, output_list) ==
    IF k > Len(dequeue)
    THEN [header |-> h, output_list |-> output_list]
    ELSE dfsRefilter(searchFn, node, dequeue, k + 1,
                     Evaluated(h, node, dequeue[k]),
                     IF searchFunc(searchFn, node, dequeue[k])
                     THEN Append(output_list, dequeue[k]) ELSE output_list)

\* a mutant of dfsLoop_Filt: a neighbour that the filter rejects is recorded
\* and not walked into
RECURSIVE dfsLoop_Filt_prune(_, _, _, _, _, _, _)
dfsLoop_Filt_prune(out, start, searchFn, i, degs, h, output_list) ==
    IF i >= degs
    THEN [header |-> h, output_list |-> output_list, fault |-> FALSE]
    ELSE LET node == out[start][i + 1]
             t == testAdd(h, nodeIndex(node))
         IN  IF t.ok /\ searchFunc(searchFn, start, node)
             THEN LET h1 == Evaluated(t.h, start, node)
                      r == devTraverseDfs_Filt(out, node, searchFn, <<h1>>)
                      f == dfsRefilter(searchFn, node, r.output_list, 1,
                                       r.header, Append(output_list, node))
                  IN  dfsLoop_Filt_prune(out, start, searchFn, i + 1, degs,
                                         f.header, f.output_list)
             ELSE dfsLoop_Filt_prune(out, start, searchFn, i + 1, degs,
                                     IF t.ok THEN Evaluated(t.h, start, node) ELSE t.h,
                                     output_list)

\* the neighbour loop of devTraverseDfs_Filt
RECURSIVE dfsLoop_Filt(_, _, _, _, _, _, _)
dfsLoop_Filt(out, start, searchFn, i, degs, h, output_list) ==
    IF i >= degs
    THEN [header |-> h, output_list |-> output_list, fault |-> FALSE]
    ELSE LET node == out[start][i + 1]
             index == nodeIndex(node)
             t == testAdd(h, index)
         IN  IF index = SegFault
             THEN [header |-> h, output_list |-> output_list, fault |-> TRUE]
             ELSE IF t.ok
             THEN LET h1 == Evaluated(t.h, start, node)
                      ol1 == IF searchFunc(searchFn, start, node)
                             THEN Append(output_list, node) ELSE output_list
                      r == devTraverseDfs_Filt(out, node, searchFn, <<h1>>)
                      f == dfsRefilter(searchFn, node, r.output_list, 1,
                                       r.header, ol1)
                  IN  IF r.fault
                      THEN [header |-> r.header, output_list |-> ol1, fault |-> TRUE]
                      ELSE dfsLoop_Filt(out, start, searchFn, i + 1, degs, f.header,
                                        f.output_list)
             ELSE dfsLoop_Filt(out, start, searchFn, i + 1, degs, t.h, output_list)

devTraverseDfs_Filt(out, start, searchFn, recurseHeader) ==
    IF start = nullptr
    THEN [output_list |-> <<>>, fault |-> FALSE,
          header |-> IF recurseHeader = <<>> THEN c_SearchHeader ELSE recurseHeader[1]]
    ELSE LET owns_header == recurseHeader = <<>>
             header == IF owns_header THEN c_SearchHeader ELSE recurseHeader[1]
             degs == externalDegree(out, start)
             t == testAdd(header, start)
             h1 == IF t.ok /\ owns_header
                   THEN Evaluated(t.h, nullptr, start) ELSE t.h
             r == dfsLoop_Filt(out, start, searchFn, 0, degs, h1,
                               IF t.ok THEN <<start>> ELSE <<>>)
         IN  [output_list |-> r.output_list, header |-> r.header, fault |-> r.fault]

(***************************************************************************)
(* c_GraphCnt and c_Graph                                                  *)
(***************************************************************************)
c_GraphCnt(from, to, priority) == [from |-> from, to |-> to, priority |-> priority]

\* idxMap: the storage position (0-based) of ID, (uint32_t)(-1) when absent
idxMap(idx, ID) == IF InSeq(ID, idx) THEN FirstPos(ID, idx) - 1 ELSE NotFound

\* the test the constructor and the entry points make on idxMap's result
IsNotFound(i) == (i = NotFoundAlt) \/ (i = NotFound)

\* c_Graph(): no node, no connection
EmptyGraph ==
    [indexes |-> <<>>, raw_ptrs |-> <<>>, nodeData |-> <<>>,
     cnt_out |-> [n \in Identity |-> <<>>],
     cnt_in |-> [n \in Identity |-> <<>>],
     calc_cnts |-> <<>>]

\* calcDegrees: the degree list, in storage order
calcDegrees(ptrs, cnt, out) == [k \in 1 .. cnt |-> externalDegree(out, ptrs[k])]

\* a mutant of constructLoop: the to endpoint is registered before the from
\* endpoint
RECURSIVE constructLoop_toFirst(_, _, _, _, _)
constructLoop_toFirst(g, prefill, connectionList, k, ceiling) ==
    IF k > Len(connectionList)
    THEN g
    ELSE LET TMP == connectionList[k]
             j0 == idxMap(g.indexes, TMP.to)
             g1 == IF IsNotFound(j0)
                   THEN [g EXCEPT !.indexes = Append(@, TMP.to),
                                  !.raw_ptrs = Append(@, TMP.to),
                                  !.nodeData = Append(@, prefill)]
                   ELSE g
             j == IF IsNotFound(j0) THEN Len(g1.indexes) - 1 ELSE j0
             i0 == idxMap(g1.indexes, TMP.from)
             g2 == IF IsNotFound(i0)
                   THEN [g1 EXCEPT !.indexes = Append(@, TMP.from),
                                   !.raw_ptrs = Append(@, TMP.from),
                                   !.nodeData = Append(@, prefill)]
                   ELSE g1
             i == IF IsNotFound(i0) THEN Len(g2.indexes) - 1 ELSE i0
             e == establishCnt(g2.cnt_out, g2.cnt_in,
                               g2.raw_ptrs[i + 1], g2.raw_ptrs[j + 1])
             g3 == [g2 EXCEPT !.cnt_out = e.out, !.cnt_in = e.in,
                              !.calc_cnts = Append(@, TMP)]
         IN  IF i >= ceiling \/ j >= ceiling
             THEN g3
             ELSE constructLoop_toFirst(g3, prefill, connectionList, k + 1, ceiling)

\* The loop of c_Graph(prefill, connectionList), from descriptor k on; ceiling
\* is the 4294967290 of the break.
RECURSIVE constructLoop(_, _, _, _, _)
constructLoop(g, prefill, connectionList, k, ceiling) ==
    IF k > Len(connectionList)
    THEN g
    ELSE LET TMP == connectionList[k]
             i0 == idxMap(g.indexes, TMP.from)
             g1 == IF IsNotFound(i0)
                   THEN [g EXCEPT !.indexes = Append(@, TMP.from),
                                  !.raw_ptrs = Append(@, TMP.from),
                                  !.nodeData = Append(@, prefill)]
                   ELSE g
             i == IF IsNotFound(i0) THEN Len(g1.indexes) - 1 ELSE i0
             j0 == idxMap(g1.indexes, TMP.to)
             g2 == IF IsNotFound(j0)
                   THEN [g1 EXCEPT !.indexes = Append(@, TMP.to),
                                   !.raw_ptrs = Append(@, TMP.to),
                                   !.nodeData = Append(@, prefill)]
                   ELSE g1
             j == IF IsNotFound(j0) THEN Len(g2.indexes) - 1 ELSE j0
             e == establishCnt(g2.cnt_out, g2.cnt_in,
                               g2.raw_ptrs[i + 1], g2.raw_ptrs[j + 1])
             g3 == [g2 EXCEPT !.cnt_out = e.out, !.cnt_in = e.in,
                              !.calc_cnts = Append(@, TMP)]
         IN  IF i >= ceiling \/ j >= ceiling
             THEN g3
             ELSE constructLoop(g3, prefill, connectionList, k + 1, ceiling)

\* c_Graph(prefill, connectionList) with the constant of the break as ceiling
c_Graph_ceiling(prefill, connectionList, ceiling) ==
    LET g == constructLoop(EmptyGraph, prefill, connectionList, 1, ceiling)
        cnt == Len(g.raw_ptrs)
    IN  [indexes |-> g.indexes, raw_ptrs |-> g.raw_ptrs, nodeData |-> g.nodeData,
         cnt_out |-> g.cnt_out, cnt_in |-> g.cnt_in,
         calc_cnts |-> g.calc_cnts, count |-> cnt,
         degrees |-> calcDegrees(g.raw_ptrs, cnt, g.cnt_out)]

\* c_Graph(0, connectionList)
c_Graph(connectionList) == c_Graph_ceiling(0, connectionList, NodeCeiling)

\* The duplicate test of optimizeCnts over lst = tmp->cnt_out, from position k.
RECURSIVE optScan(_, _, _, _, _, _)
optScan(lst, k, minidx, maxidx, marked, to_sever) ==
    IF k > Len(lst)
    THEN [marked |-> marked, to_sever |-> to_sever]
    ELSE LET node == lst[k]
         IN  IF node < minidx
             THEN optScan(lst, k + 1, node, maxidx, Append(marked, node), to_sever)
             ELSE IF node > maxidx
             THEN optScan(lst, k + 1, minidx, node, Append(marked, node), to_sever)
             ELSE IF InSeq(node, marked)
             THEN optScan(lst, k + 1, minidx, maxidx, marked, Append(to_sever, node))
             ELSE optScan(lst, k + 1, minidx, maxidx, Append(marked, node), to_sever)

\* for (dupl : to_sever) tmp->severCnt(dupl); an exception ends the loop
RECURSIVE severAll(_, _, _, _, _)
severAll(out, in, self, to_sever, k) ==
    IF k > Len(to_sever)
    THEN [out |-> out, in |-> in, threw |-> FALSE]
    ELSE LET r == severCnt(out, in, self, to_sever[k])
         IN  IF r.threw
             THEN [out |-> r.out, in |-> r.in, threw |-> TRUE]
             ELSE severAll(r.out, r.in, self, to_sever, k + 1)

\* The node loop of optimizeCnts(), from storage position i (0-based) on.
RECURSIVE optLoop(_, _, _, _, _, _)
optLoop(out, in, calc, ptrs, cnt, i) ==
    IF i >= cnt
    THEN [out |-> out, in |-> in, calc |-> calc, ret |-> Len(calc), threw |-> FALSE]
    ELSE LET tmp == ptrs[i + 1]
             sc == optScan(out[tmp], 1, NotFound, 0, <<>>, <<>>)
             calc2 == calc \o [k \in 1 .. Len(sc.marked) |->
                                  c_GraphCnt(tmp, sc.marked[k], 0)]
             sv == severAll(out, in, tmp, sc.to_sever, 1)
         IN  IF sv.threw
             THEN [out |-> sv.out, in |-> sv.in, calc |-> calc2, ret |-> -1,
                   threw |-> TRUE]
             ELSE optLoop(sv.out, sv.in, calc2, ptrs, cnt, i + 1)

\* optimizeCnts()
optimizeCnts(out, in, ptrs, cnt) == optLoop(out, in, <<>>, ptrs, cnt, 0)

\* The priority functions handed to optimizeCnts(prioFunc); the value is a
\* uint8_t.  "dist" is |to - from|, "order" tells from and to apart.
PrioFuncs == {"dist", "order"}

prioFunc(f, from, to) ==
    CASE f = "dist" -> (IF to > from THEN to - from ELSE from - to) % 256
      [] f = "order" -> (3 * from + to + 1) % 256

\* the descriptors made of the accepted entries of tmp: marked[k] is given the
\* priority prioFunc(tmp, marked[k])
Prioritized(prioFn, tmp, marked) ==
    [k \in 1 .. Len(marked) |->
        c_GraphCnt(tmp, marked[k], prioFunc(prioFn, tmp, marked[k]))]

\* a mutant of optLoop_prio: prioFunc is handed the to node first
RECURSIVE optLoop_prio_swapped(_, _, _, _, _, _, _, _)
optLoop_prio_swapped(prioFn, out, in, calc, calls, ptrs, cnt, i) ==
    IF i >= cnt
    THEN [out |-> out, in |-> in, calc |-> calc, calls |-> calls,
          ret |-> Len(calc), threw |-> FALSE]
    ELSE LET tmp == ptrs[i + 1]
             sc == optScan(out[tmp], 1, NotFound, 0, <<>>, <<>>)
             calc2 == calc \o [k \in 1 .. Len(sc.marked) |->
                          c_GraphCnt(tmp, sc.marked[k],
                                     prioFunc(prioFn, sc.marked[k], tmp))]
             calls2 == calls \o [k \in 1 .. Len(sc.marked) |-> <<sc.marked[k], tmp>>]
             sv == severAll(out, in, tmp, sc.to_sever, 1)
         IN  IF sv.threw
             THEN [out |-> sv.out, in |-> sv.in, calc |-> calc2, calls |-> calls2,
                   ret |-> -1, threw |-> TRUE]
             ELSE optLoop_prio_swapped(prioFn, sv.out, sv.in, calc2, calls2, ptrs,
                                       cnt, i + 1)

\* The node loop of optimizeCnts(prioFunc), from storage position i (0-based)
\* on; calls is the log of the (from, to) pairs handed to prioFunc.
RECURSIVE optLoop_prio(_, _, _, _, _, _, _, _)
optLoop_prio(prioFn, out, in, calc, calls, ptrs, cnt, i) ==
    IF i >= cnt
    THEN [out |-> out, in |-> in, calc |-> calc, calls |-> calls,
          ret |-> Len(calc), threw |-> FALSE]
    ELSE LET tmp == ptrs[i + 1]
             sc == optScan(out[tmp], 1, NotFound, 0, <<>>, <<>>)
             calc2 == calc \o Prioritized(prioFn, tmp, sc.marked)
             calls2 == calls \o [k \in 1 .. Len(sc.marked) |-> <<tmp, sc.marked[k]>>]
             sv == severAll(out, in, tmp, sc.to_sever, 1)
         IN  IF sv.threw
             THEN [out |-> sv.out, in |-> sv.in, calc |-> calc2, calls |-> calls2,
                   ret |-> -1, threw |-> TRUE]
             ELSE optLoop_prio(prioFn, sv.out, sv.in, calc2, calls2, ptrs, cnt, i + 1)

\* optimizeCnts(prioFunc)
optimizeCnts_prio(prioFn, out, in, ptrs, cnt) ==
    optLoop_prio(prioFn, out, in, <<>>, <<>>, ptrs, cnt, 0)

\* what an entry point hands back for the start it did not resolve
NoTraversal ==
    [output |-> <<>>, calls |-> <<>>, visited |-> <<>>, threw |-> FALSE,
     crashed |-> FALSE]

\* raw_ptrs.at(init) of a position past the end throws
OutOfRange ==
    [output |-> <<>>, calls |-> <<>>, visited |-> <<>>, threw |-> TRUE,
     crashed |-> FALSE]

\* what an entry point hands back for the walk r; a walk that faulted never
\* returns, and output and calls are then what it had done by the fault;
\* visited is idx_visited of the header as the walk left it
Returned(r) ==
    [output |-> r.output_list, calls |-> r.header.calls,
     visited |-> r.header.idx_visited, threw |-> FALSE,
     crashed |-> "fault" \in DOMAIN r /\ r.fault]

\* a mutant of runBreadthFirst: the entry point delegates to the depth-first walk
runBreadthFirst_depthFirst(idx, ptrs, out, index_start) ==
    LET init == idxMap(idx, index_start)
    IN  IF IsNotFound(init) THEN NoTraversal
        ELSE IF init >= Len(ptrs) THEN OutOfRange
        ELSE Returned(devTraverseDfs(out, ptrs[init + 1], <<>>))

\* runBreadthFirst(index_start)
runBreadthFirst(idx, ptrs, out, index_start) ==
    LET init == idxMap(idx, index_start)
    IN  IF IsNotFound(init) THEN NoTraversal
        ELSE IF init >= Len(ptrs) THEN OutOfRange
        ELSE Returned(devTraverseBfs(out, ptrs[init + 1], <<>>))

\* runBreadthFirst(index_start, searchFunc)
runBreadthFirst_Filt(idx, ptrs, out, index_start, searchFn) ==
    LET init == idxMap(idx, index_start)
    IN  IF IsNotFound(init) THEN NoTraversal
        ELSE IF init >= Len(ptrs) THEN OutOfRange
        ELSE Returned(devTraverseBfs_Filt(out, ptrs[init + 1], searchFn, <<>>))

\* a mutant of runDepthFirst: the entry point delegates to the breadth-first walk
runDepthFirst_breadthFirst(idx, ptrs, out, index_start) ==
    LET init == idxMap(idx, index_start)
    IN  IF IsNotFound(init) THEN NoTraversal
        ELSE IF init >= Len(ptrs) THEN OutOfRange
        ELSE Returned(devTraverseBfs(out, ptrs[init + 1], <<>>))

\* runDepthFirst(index_start)
runDepthFirst(idx, ptrs, out, index_start) ==
    LET init == idxMap(idx, index_start)
    IN  IF IsNotFound(init) THEN NoTraversal
        ELSE IF init >= Len(ptrs) THEN OutOfRange
        ELSE Returned(devTraverseDfs(out, ptrs[init + 1], <<>>))

\* a mutant of runDepthFirst_Filt: init is compared with 4294967293 alone
runDepthFirst_Filt_oneSentinel(idx, ptrs, out, index_start, searchFn) ==
    LET init == idxMap(idx, index_start)
    IN  IF init = NotFoundAlt THEN NoTraversal
        ELSE IF init >= Len(ptrs) THEN OutOfRange
        ELSE Returned(devTraverseDfs_Filt(out, ptrs[init + 1], searchFn, <<>>))

\* runDepthFirst(index_start, searchFunc)
runDepthFirst_Filt(idx, ptrs, out, index_start, searchFn) ==
    LET init == idxMap(idx, index_start)
    IN  IF IsNotFound(init) THEN NoTraversal
        ELSE IF init >= Len(ptrs) THEN OutOfRange
        ELSE Returned(devTraverseDfs_Filt(out, ptrs[init + 1], searchFn, <<>>))

(***************************************************************************)
(* The state machine: a graph is constructed, then calls are made on it.   *)
(* last records the latest call (its name, receiver, argument, result),    *)
(* prev the call made before it, and before the adjacency lists as they    *)
(* were when the latest call was made.  A call that threw ends the run.    *)
(***************************************************************************)
Call(op, self, arg, ret, threw, output) ==
    [op |-> op, self |-> self, arg |-> arg, ret |-> ret, threw |-> threw,
     output |-> output, filter |-> "", calls |-> <<>>, visited |-> <<>>,
     crashed |-> FALSE]

\* the record of a traversal from index_start, r what the entry point returned
Traversal(op, index_start, f, r) ==
    [op |-> op, self |-> nullptr, arg |-> index_start, ret |-> 0,
     threw |-> r.threw, output |-> r.output, filter |-> f, calls |-> r.calls,
     visited |-> r.visited, crashed |-> r.crashed]

\* sequences over S of length at most n
RECURSIVE SeqsUpTo(_, _)
SeqsUpTo(S, n) ==
    IF n = 0
    THEN {<<>>}
    ELSE LET shorter == SeqsUpTo(S, n - 1)
         IN  shorter \cup {Append(s, x) : s \in {t \in shorter : Len(t) = n - 1}, x \in S}

\* the (from, to) pairs over the identities 0..top; the pairs with from = to
\* (which create a node and no connection) only when loops is TRUE
Pairs(top, loops) ==
    {pr \in (0 .. top) \X (0 .. top) : loops \/ pr[1] # pr[2]}

\* the connection lists of at most n descriptors over the pairs in P; the k-th
\* descriptor of a list carries the priority k
ConnectionLists(P, n) ==
    {[k \in 1 .. Len(pl) |-> c_GraphCnt(pl[k][1], pl[k][2], k)] : pl \in SeqsUpTo(P, n)}

Constructed(connectionList) ==
    LET g == c_Graph(connectionList)
    IN  /\ indexes = g.indexes
        /\ raw_ptrs = g.raw_ptrs
        /\ nodeData = g.nodeData
        /\ cnt_out = g.cnt_out
        /\ cnt_in = g.cnt_in
        /\ calc_cnts = g.calc_cnts
        /\ count = g.count
        /\ degrees = g.degrees
        /\ last = Call("c_Graph", nullptr, nullptr, 0, FALSE, <<>>)
        /\ prev = Call("none", nullptr, nullptr, 0, FALSE, <<>>)
        /\ before = g
        /\ ncalls = 0
        /\ searchHeader = c_SearchHeader
        /\ passed = <<>>
        /\ stack = <<>>

Init == \E connectionList \in ConnectionLists(Pairs(MaxMutId, TRUE), MaxCnts) :
            /\ Constructed(connectionList)
            /\ nullRead = SegFault

Nodes == {raw_ptrs[k] : k \in 1 .. Len(raw_ptrs)}

CanCall == ncalls < MaxCalls /\ ~last.threw

Snapshot ==
    [cnt_out |-> cnt_out, cnt_in |-> cnt_in, indexes |-> indexes,
     raw_ptrs |-> raw_ptrs, nodeData |-> nodeData, calc_cnts |-> calc_cnts, count |-> count,
     degrees |-> degrees]

\* the bookkeeping of every call
Called ==
    /\ before' = Snapshot
    /\ prev' = last
    /\ ncalls' = ncalls + 1
    /\ UNCHANGED <<nodeData, searchHeader, passed, nullRead, stack>>

\* self->establishCnt(other)
EstablishCnt(self, other) ==
    /\ CanCall
    /\ LET r == establishCnt(cnt_out, cnt_in, self, other)
       IN  /\ cnt_out' = r.out
           /\ cnt_in' = r.in
           /\ last' = Call("establishCnt", self, other, r.ret, FALSE, <<>>)
    /\ Called
    /\ UNCHANGED <<indexes, raw_ptrs, calc_cnts, count, degrees>>

\* self->severCnt(other), other a node pointer or nullptr
SeverCnt(self, other) ==
    /\ CanCall
    /\ LET r == severCnt(cnt_out, cnt_in, self, other)
       IN  /\ cnt_out' = r.out
           /\ cnt_in' = r.in
           /\ last' = Call("severCnt", self, other, r.ret, r.threw, <<>>)
    /\ Called
    /\ UNCHANGED <<indexes, raw_ptrs, calc_cnts, count, degrees>>

\* self->severCnt(index), index a position
SeverCntIndex(self, index) ==
    /\ CanCall
    /\ LET r == severCnt_index(cnt_out, cnt_in, self, index)
       IN  /\ cnt_out' = r.out
           /\ cnt_in' = r.in
           /\ last' = Call("severCnt_index", self, index, r.ret, r.threw, <<>>)
    /\ Called
    /\ UNCHANGED <<indexes, raw_ptrs, calc_cnts, count, degrees>>

\* self->traverseCnt(index)
TraverseCnt(self, index) ==
    /\ CanCall
    /\ last' = Call("traverseCnt", self, index,
                    traverseCnt(cnt_out, self, index), FALSE, <<>>)
    /\ Called
    /\ UNCHANGED graphvars

\* graph.optimizeCnts()
OptimizeCnts ==
    /\ CanCall
    /\ LET r == optimizeCnts(cnt_out, cnt_in, raw_ptrs, count)
       IN  /\ cnt_out' = r.out
           /\ cnt_in' = r.in
           /\ calc_cnts' = r.calc
           /\ last' = Call("optimizeCnts", nullptr, nullptr, r.ret, r.threw, <<>>)
    /\ Called
    /\ UNCHANGED <<indexes, raw_ptrs, count, degrees>>

\* graph.optimizeCnts(prioFunc)
OptimizeCntsPrio(prioFn) ==
    /\ CanCall
    /\ LET r == optimizeCnts_prio(prioFn, cnt_out, cnt_in, raw_ptrs, count)
       IN  /\ cnt_out' = r.out
           /\ cnt_in' = r.in
           /\ calc_cnts' = r.calc
           /\ last' = [Call("optimizeCnts_prio", nullptr, nullptr, r.ret, r.threw, <<>>)
                          EXCEPT !.filter = prioFn, !.calls = r.calls]
    /\ Called
    /\ UNCHANGED <<indexes, raw_ptrs, count, degrees>>

\* graph.calcDegrees()
CalcDegrees ==
    /\ CanCall
    /\ degrees' = calcDegrees(raw_ptrs, count, cnt_out)
    /\ LET d == calcDegrees(raw_ptrs, count, cnt_out)
           largest == IF count = 0 THEN 0
                      ELSE CHOOSE m \in {d[k] : k \in 1 .. count} :
                               \A k \in 1 .. count : d[k] <= m
       IN  last' = Call("calcDegrees", nullptr, nullptr, largest, FALSE, <<>>)
    /\ Called
    /\ UNCHANGED <<indexes, raw_ptrs, cnt_out, cnt_in, calc_cnts, count>>

\* the positions a caller passes: every valid one and two past the end
Positions(self) == 0 .. (Len(cnt_out[self]) + 1)

Next ==
    \/ \E self \in Nodes, other \in Nodes \cup {nullptr} : EstablishCnt(self, other)
    \/ \E self \in Nodes, other \in Nodes \cup {nullptr} : SeverCnt(self, other)
    \/ \E self \in Nodes : \E index \in Positions(self) : SeverCntIndex(self, index)
    \/ \E self \in Nodes : \E index \in Positions(self) : TraverseCnt(self, index)
    \/ OptimizeCnts
    \/ \E prioFn \in PrioFuncs : OptimizeCntsPrio(prioFn)
    \/ CalcDegrees

Spec == Init /\ [][Next]_vars

(***************************************************************************)
(* The optimize machine: graphs constructed from longer connection lists,  *)
(* on which the two optimizeCnts overloads are called.                     *)
(***************************************************************************)
OptInit ==
    \E connectionList \in ConnectionLists(Pairs(MaxMutId, TRUE), MaxOptCnts) :
        /\ Constructed(connectionList)
        /\ nullRead = SegFault

OptNext ==
    \/ OptimizeCnts
    \/ \E prioFn \in PrioFuncs : OptimizeCntsPrio(prioFn)

OptSpec == OptInit /\ [][OptNext]_vars

(***************************************************************************)
(* The sever machine: graphs constructed from longer connection lists, on  *)
(* which the nodes' sever and neighbour calls are made.                    *)
(***************************************************************************)
SeverInit ==
    \E connectionList \in ConnectionLists(Pairs(MaxMutId, FALSE), MaxSeverCnts) :
        /\ Constructed(connectionList)
        /\ nullRead = SegFault

SeverNext ==
    \/ \E self \in Nodes, other \in Nodes \cup {nullptr} : SeverCnt(self, other)
    \/ \E self \in Nodes : \E index \in Positions(self) : SeverCntIndex(self, index)
    \/ \E self \in Nodes : \E index \in Positions(self) : TraverseCnt(self, index)

SeverSpec == SeverInit /\ [][SeverNext]_vars

(***************************************************************************)
(* The traversal machine: a graph is constructed and one traversal is run  *)
(* on it, from a start identity that the graph may or may not hold.  The   *)
(* connection lists are those without (n, n) descriptors whose descriptors *)
(* come in non-decreasing order of from: every assignment of outbound      *)
(* lists to the nodes is the cnt_out of one of them.                       *)
(***************************************************************************)
TravLists ==
    {cl \in ConnectionLists(Pairs(MaxId, FALSE), MaxTravCnts) :
        \A k \in 1 .. (Len(cl) - 1) : cl[k].from <= cl[k + 1].from}

TravInit ==
    \E connectionList \in TravLists :
        /\ Constructed(connectionList)
        /\ nullRead = SegFault

CanTraverse == ncalls < MaxTravCalls /\ ~last.threw /\ ~last.crashed

\* graph.runBreadthFirst(index_start)
RunBreadthFirst(index_start) ==
    /\ CanTraverse
    /\ last' = Traversal("runBreadthFirst", index_start, "",
                         runBreadthFirst(indexes, raw_ptrs, cnt_out, index_start))
    /\ Called
    /\ UNCHANGED graphvars

\* graph.runBreadthFirst(index_start, searchFunc)
RunBreadthFirst_Filt(index_start, searchFn) ==
    /\ CanTraverse
    /\ last' = Traversal("runBreadthFirst_Filt", index_start, searchFn,
                         runBreadthFirst_Filt(indexes, raw_ptrs, cnt_out,
                                              index_start, searchFn))
    /\ Called
    /\ UNCHANGED graphvars

\* graph.runDepthFirst(index_start)
RunDepthFirst(index_start) ==
    /\ CanTraverse
    /\ last' = Traversal("runDepthFirst", index_start, "",
                         runDepthFirst(indexes, raw_ptrs, cnt_out, index_start))
    /\ Called
    /\ UNCHANGED graphvars

\* graph.runDepthFirst(index_start, searchFunc)
RunDepthFirst_Filt(index_start, searchFn) ==
    /\ CanTraverse
    /\ last' = Traversal("runDepthFirst_Filt", index_start, searchFn,
                         runDepthFirst_Filt(indexes, raw_ptrs, cnt_out,
                                            index_start, searchFn))
    /\ Called
    /\ UNCHANGED graphvars

TravNext ==
    \/ \E index_start \in Identity : RunBreadthFirst(index_start)
    \/ \E index_start \in Identity, searchFn \in Filters :
           RunBreadthFirst_Filt(index_start, searchFn)
    \/ \E index_start \in Identity : RunDepthFirst(index_start)
    \/ \E index_start \in Identity, searchFn \in Filters :
           RunDepthFirst_Filt(index_start, searchFn)

TravSpec == TravInit /\ [][TravNext]_vars

(***************************************************************************)
(* The wide traversal machine: graphs of up to MaxId + 2 nodes, so that two *)
(* nodes of one level can each discover a node of the next level, and one  *)
(* plain traversal.                                                        *)
(***************************************************************************)
WideLists ==
    {cl \in ConnectionLists(Pairs(MaxId + 1, FALSE), MaxWideCnts) :
        \A k \in 1 .. (Len(cl) - 1) : cl[k].from <= cl[k + 1].from}

WideInit ==
    \E connectionList \in WideLists :
        /\ Constructed(connectionList)
        /\ nullRead = SegFault

WideNext ==
    \/ \E index_start \in Identity : RunBreadthFirst(index_start)
    \/ \E index_start \in Identity : RunDepthFirst(index_start)

WideSpec == WideInit /\ [][WideNext]_vars

(***************************************************************************)
(* The null-entry machine: cnt_out is a public member of the node, and a   *)
(* client writes a null pointer into one outbound list of a constructed    *)
(* graph; one traversal is then run.  What a read through a null pointer   *)
(* does is fixed by the environment from the start.                        *)
(***************************************************************************)
NullReads == {SegFault} \cup (0 .. MaxMutId)

NullLists ==
    {cl \in ConnectionLists(Pairs(MaxMutId, FALSE), MaxNullCnts) :
        \A k \in 1 .. (Len(cl) - 1) : cl[k].from <= cl[k + 1].from}

NullInit ==
    \E connectionList \in NullLists, read \in NullReads :
        /\ Constructed(connectionList)
        /\ nullRead = read

InsertAt(s, i, x) == SubSeq(s, 1, i) \o <<x>> \o SubSeq(s, i + 1, Len(s))

HasNull == \E n \in Nodes : InSeq(nullptr, cnt_out[n])

\* self->cnt_out.insert(self->cnt_out.begin() + pos, nullptr)
PlantNull(self, pos) ==
    /\ ncalls = 0
    /\ ~HasNull
    /\ cnt_out' = [cnt_out EXCEPT ![self] = InsertAt(@, pos, nullptr)]
    /\ UNCHANGED <<indexes, raw_ptrs, nodeData, cnt_in, calc_cnts, count, degrees,
                   searchHeader, passed, last, prev, before, ncalls, nullRead,
                   stack>>

NullNext ==
    \/ \E self \in Nodes : \E pos \in 0 .. Len(cnt_out[self]) : PlantNull(self, pos)
    \/ TravNext

NullSpec == NullInit /\ [][NullNext]_vars

(***************************************************************************)
(* The header machine: testAdd calls made on a fresh c_SearchHeader, in    *)
(* any order of identities; passed is the identities handed in so far.     *)
(***************************************************************************)
HeaderInit == Constructed(<<>>) /\ nullRead = SegFault

\* searchHeader.testAdd(index)
TestAdd(index) ==
    /\ ncalls < MaxHeaderCalls
    /\ LET t == testAdd(searchHeader, index)
       IN  /\ searchHeader' = t.h
           /\ last' = Call("testAdd", nullptr, index, t.ok, FALSE, <<>>)
    /\ passed' = Append(passed, index)
    /\ before' = Snapshot
    /\ prev' = last
    /\ ncalls' = ncalls + 1
    /\ UNCHANGED <<graphvars, nullRead, stack>>

\* the greatest identity below the reserved values
HighId == NodeCeiling - 1

HeaderIds == (0 .. MaxHeaderId) \cup {HighId}

HeaderNext == \E index \in HeaderIds : TestAdd(index)

HeaderSpec == HeaderInit /\ [][HeaderNext]_vars

(***************************************************************************)
(* The construction machines: from the empty graph of c_Graph(), a graph   *)
(* is constructed from a payload and a connection list; the call keeps its *)
(* arguments.  ConsSpec constructs with the constant 4294967290 of the     *)
(* code, CeilSpec with that constant scaled down to ScaledCeiling.         *)
(***************************************************************************)
Payloads == {0, 7}

ConsInit ==
    /\ indexes = EmptyGraph.indexes
    /\ raw_ptrs = EmptyGraph.raw_ptrs
    /\ nodeData = EmptyGraph.nodeData
    /\ cnt_out = EmptyGraph.cnt_out
    /\ cnt_in = EmptyGraph.cnt_in
    /\ calc_cnts = EmptyGraph.calc_cnts
    /\ count = 0
    /\ degrees = <<>>
    /\ last = Call("none", nullptr, nullptr, 0, FALSE, <<>>)
    /\ prev = Call("none", nullptr, nullptr, 0, FALSE, <<>>)
    /\ before = Snapshot
    /\ ncalls = 0
    /\ searchHeader = c_SearchHeader
    /\ passed = <<>>
    /\ nullRead = SegFault
    /\ stack = <<>>

\* c_Graph(prefill, connectionList)
ConstructGraph(prefill, connectionList, ceiling) ==
    /\ ncalls = 0
    /\ LET g == c_Graph_ceiling(prefill, connectionList, ceiling)
       IN  /\ indexes' = g.indexes
           /\ raw_ptrs' = g.raw_ptrs
           /\ nodeData' = g.nodeData
           /\ cnt_out' = g.cnt_out
           /\ cnt_in' = g.cnt_in
           /\ calc_cnts' = g.calc_cnts
           /\ count' = g.count
           /\ degrees' = g.degrees
    /\ last' = [op |-> "c_Graph", self |-> nullptr, arg |-> connectionList,
                prefill |-> prefill, ceiling |-> ceiling, ret |-> 0,
                threw |-> FALSE, output |-> <<>>, filter |-> "", calls |-> <<>>,
                visited |-> <<>>, crashed |-> FALSE]
    /\ before' = Snapshot
    /\ prev' = last
    /\ ncalls' = ncalls + 1
    /\ UNCHANGED <<searchHeader, passed, nullRead, stack>>

ConsLists == ConnectionLists(Pairs(MaxId, TRUE), MaxConsCnts)

ConsNext ==
    \E prefill \in Payloads, connectionList \in ConsLists :
        ConstructGraph(prefill, connectionList, NodeCeiling)

ConsSpec == ConsInit /\ [][ConsNext]_vars

CeilNext ==
    \E prefill \in Payloads, connectionList \in ConsLists :
        ConstructGraph(prefill, connectionList, ScaledCeiling)

CeilSpec == ConsInit /\ [][CeilNext]_vars

(***************************************************************************)
(* The stepping machine: one traversal run step by step.  stack holds the  *)
(* frames of the calls of devTraverseBfs[_Filt] or devTraverseDfs[_Filt]   *)
(* in progress, the outermost first; searchHeader is the header the        *)
(* outermost call created.  A step is a call, a return, or the part of a   *)
(* body between two of them (its bounded for loops included).  The program *)
(* is sequential: a step that can be taken is taken.                       *)
(***************************************************************************)
BfsOps == {"runBreadthFirst", "runBreadthFirst_Filt"}

DfsOps == {"runDepthFirst", "runDepthFirst_Filt"}

FilteredOps == {"runBreadthFirst_Filt", "runDepthFirst_Filt"}

\* the frame of a call entered with start; op and arg are the entry point called
\* and its index_start, owns whether recurseHeader was nullptr
Frame(op, arg, searchFn, start, owns) ==
    [op |-> op, arg |-> arg, searchFn |-> searchFn, start |-> start,
     owns_header |-> owns, pc |-> "enter", i |-> 0, output_list |-> <<>>,
     dequeue |-> <<>>, newqueue |-> <<>>]

Top == stack[Len(stack)]

\* the stack with its top frame replaced by fr
WithTop(fr) == [stack EXCEPT ![Len(stack)] = fr]

Walking == stack # <<>>

\* A mutant of newHeader: the outermost call goes on with what the header of
\* the call before it held
newHeader_stale(old) == old

\* header = new c_SearchHeader in a call entered with recurseHeader = nullptr:
\* the object is initialised by its member initialisers whatever old, the
\* header of an earlier call, held
newHeader(old) == c_SearchHeader

\* the entry points: idxMap, the test of its result, raw_ptrs.at(init) and the
\* call of devTraverse* with no header
EntryPoint(op, index_start, searchFn) ==
    /\ ~Walking
    /\ (searchFn = "") <=> (op \notin FilteredOps)
    /\ LET init == idxMap(indexes, index_start)
       IN  IF IsNotFound(init)
           THEN /\ last' = Traversal(op, index_start, searchFn, NoTraversal)
                /\ ncalls' = ncalls + 1
                /\ UNCHANGED <<stack, searchHeader>>
           ELSE IF init >= Len(raw_ptrs)
           THEN /\ last' = Traversal(op, index_start, searchFn, OutOfRange)
                /\ ncalls' = ncalls + 1
                /\ UNCHANGED <<stack, searchHeader>>
           ELSE /\ stack' = <<Frame(op, index_start, searchFn, raw_ptrs[init + 1], TRUE)>>
                /\ searchHeader' = newHeader(searchHeader)
                /\ UNCHANGED <<last, ncalls>>
    /\ before' = Snapshot
    /\ prev' = last
    /\ UNCHANGED <<graphvars, passed, nullRead>>

\* the one traversal of a run
StartWalk(op, index_start, searchFn) ==
    /\ CanTraverse
    /\ last.op \notin BfsOps \cup DfsOps
    /\ EntryPoint(op, index_start, searchFn)

\* devTraverseBfs[_Filt] from its first line to the end of the neighbour loop
BfsEnter ==
    /\ Walking
    /\ Top.op \in BfsOps
    /\ Top.pc = "enter"
    /\ LET start == Top.start
           degs == externalDegree(cnt_out, start)
           t == testAdd(searchHeader, start)
           asked == t.ok /\ Top.owns_header
           h1 == IF asked THEN Evaluated(t.h, nullptr, start) ELSE t.h
           nb == IF Top.op \in FilteredOps
                 THEN bfsNeighbours_Filt(cnt_out[start], start, Top.searchFn, 0, degs,
                          h1, IF asked /\ searchFunc(Top.searchFn, nullptr, start)
                              THEN <<start>> ELSE <<>>)
                 ELSE bfsNeighbours(cnt_out[start], 0, degs, t.h,
                                    IF t.ok THEN <<start>> ELSE <<>>)
       IN  /\ searchHeader' = nb.header
           /\ stack' = WithTop([Top EXCEPT !.pc = "while",
                                           !.output_list = nb.output_list])
    /\ UNCHANGED <<graphvars, passed, nullRead, last, prev, before, ncalls>>

\* while (dequeue.empty() && !header->visit_queue.empty()): the first pending
\* node is erased from visit_queue and devTraverseBfs[_Filt] is called on it
BfsCall ==
    /\ Walking
    /\ Top.op \in BfsOps
    /\ Top.pc = "while"
    /\ Top.dequeue = <<>>
    /\ searchHeader.visit_queue # <<>>
    /\ LET handle == Head(searchHeader.visit_queue)
       IN  /\ searchHeader' = [searchHeader EXCEPT !.visit_queue = Tail(@)]
           /\ stack' = Append(stack, Frame(Top.op, Top.arg, Top.searchFn, handle, FALSE))
    /\ UNCHANGED <<graphvars, passed, nullRead, last, prev, before, ncalls>>

\* A mutant of bfsMerge: the owning call hands newqueue to visit_queue and
\* keeps it
bfsMerge_keepQueue(fr, h) ==
    LET got == SelectSeq(fr.dequeue, NotNull)
        nq == fr.newqueue \o got
        promote == fr.owns_header /\ h.visit_queue = <<>> /\ nq # <<>>
        h2 == IF promote THEN [h EXCEPT !.visit_queue = nq] ELSE h
    IN  [header |-> h2,
         frame |-> [fr EXCEPT !.output_list = @ \o got, !.dequeue = <<>>,
                              !.newqueue = nq,
                              !.pc = IF h2.visit_queue # <<>> THEN "while" ELSE "exit"]]

\* The rest of the do-while body of the frame fr under the header h: the
\* returned nodes go to newqueue and output_list, dequeue is cleared, the
\* owning call with an empty visit_queue takes newqueue as the next
\* visit_queue; then the test of the do-while.
bfsMerge(fr, h) ==
    LET got == SelectSeq(fr.dequeue, NotNull)
        nq == fr.newqueue \o got
        promote == fr.owns_header /\ h.visit_queue = <<>> /\ nq # <<>>
        h2 == IF promote THEN [h EXCEPT !.visit_queue = nq] ELSE h
    IN  [header |-> h2,
         frame |-> [fr EXCEPT !.output_list = @ \o got, !.dequeue = <<>>,
                              !.newqueue = IF promote THEN <<>> ELSE nq,
                              !.pc = IF h2.visit_queue # <<>> THEN "while" ELSE "exit"]]

BfsMerge ==
    /\ Walking
    /\ Top.op \in BfsOps
    /\ Top.pc = "while"
    /\ ~(Top.dequeue = <<>> /\ searchHeader.visit_queue # <<>>)
    /\ LET m == bfsMerge(Top, searchHeader)
       IN  /\ searchHeader' = m.header
           /\ stack' = WithTop(m.frame)
    /\ UNCHANGED <<graphvars, passed, nullRead, last, prev, before, ncalls>>

\* the return of a call that does not own the header: newqueue, if it holds
\* anything, becomes visit_queue, and output_list is the caller's dequeue
BfsReturn ==
    /\ Len(stack) > 1
    /\ Top.op \in BfsOps
    /\ Top.pc = "exit"
    /\ searchHeader' = IF Top.newqueue # <<>>
                       THEN [searchHeader EXCEPT !.visit_queue = Top.newqueue]
                       ELSE searchHeader
    /\ LET caller == stack[Len(stack) - 1]
       IN  stack' = Append(SubSeq(stack, 1, Len(stack) - 2),
                           [caller EXCEPT !.dequeue = Top.output_list])
    /\ UNCHANGED <<graphvars, passed, nullRead, last, prev, before, ncalls>>

\* devTraverseDfs[_Filt] from its first line to the neighbour loop
DfsEnter ==
    /\ Walking
    /\ Top.op \in DfsOps
    /\ Top.pc = "enter"
    /\ LET start == Top.start
           t == testAdd(searchHeader, start)
       IN  /\ searchHeader' = IF Top.op \in FilteredOps /\ t.ok /\ Top.owns_header
                              THEN Evaluated(t.h, nullptr, start) ELSE t.h
           /\ stack' = WithTop([Top EXCEPT !.pc = "loop",
                                   !.output_list = IF t.ok THEN <<start>> ELSE <<>>])
    /\ UNCHANGED <<graphvars, passed, nullRead, last, prev, before, ncalls>>

\* one pass of the neighbour loop of devTraverseDfs[_Filt], up to the
\* recursive call when the neighbour is newly recorded
DfsVisit ==
    /\ Walking
    /\ Top.op \in DfsOps
    /\ Top.pc = "loop"
    /\ Top.i < externalDegree(cnt_out, Top.start)
    /\ LET node == cnt_out[Top.start][Top.i + 1]
           index == nodeIndex(node)
           t == testAdd(searchHeader, index)
           filtered == Top.op \in FilteredOps
       IN  IF index = SegFault
           THEN /\ stack' = <<>>
                /\ last' = Traversal(Top.op, Top.arg, Top.searchFn,
                               [output |-> Top.output_list, calls |-> searchHeader.calls,
                                visited |-> searchHeader.idx_visited,
                                threw |-> FALSE, crashed |-> TRUE])
                /\ ncalls' = ncalls + 1
                /\ UNCHANGED searchHeader
           ELSE IF t.ok
           THEN /\ searchHeader' = IF filtered THEN Evaluated(t.h, Top.start, node)
                                   ELSE t.h
                /\ stack' = Append(
                       WithTop([Top EXCEPT !.pc = "await",
                                   !.output_list =
                                       IF filtered /\ ~searchFunc(Top.searchFn, Top.start, node)
                                       THEN @ ELSE Append(@, node)]),
                       Frame(Top.op, Top.arg, Top.searchFn, node, FALSE))
                /\ UNCHANGED <<last, ncalls>>
           ELSE /\ searchHeader' = t.h
                /\ stack' = WithTop([Top EXCEPT !.i = @ + 1])
                /\ UNCHANGED <<last, ncalls>>
    /\ UNCHANGED <<graphvars, passed, nullRead, prev, before>>

\* the return of a recursive call of devTraverseDfs[_Filt]: the caller takes
\* the returned vector over (filtering it again in the filtered walk) and
\* goes on with its next neighbour
DfsReturn ==
    /\ Len(stack) > 1
    /\ Top.op \in DfsOps
    /\ Top.pc = "loop"
    /\ Top.i >= externalDegree(cnt_out, Top.start)
    /\ LET caller == stack[Len(stack) - 1]
           f == IF Top.op \in FilteredOps
                THEN dfsRefilter(Top.searchFn, Top.start, Top.output_list, 1,
                                 searchHeader, caller.output_list)
                ELSE [header |-> searchHeader,
                      output_list |-> caller.output_list \o Top.output_list]
       IN  /\ searchHeader' = f.header
           /\ stack' = Append(SubSeq(stack, 1, Len(stack) - 2),
                              [caller EXCEPT !.pc = "loop", !.i = @ + 1,
                                             !.output_list = f.output_list])
    /\ UNCHANGED <<graphvars, passed, nullRead, last, prev, before, ncalls>>

\* the return of the outermost call: the header is deleted (searchHeader keeps
\* it as it was) and the entry point returns output_list
WalkReturn ==
    /\ Len(stack) = 1
    /\ \/ Top.op \in BfsOps /\ Top.pc = "exit"
       \/ /\ Top.op \in DfsOps
          /\ Top.pc = "loop"
          /\ Top.i >= externalDegree(cnt_out, Top.start)
    /\ stack' = <<>>
    /\ last' = Traversal(Top.op, Top.arg, Top.searchFn,
                   [output |-> Top.output_list, calls |-> searchHeader.calls,
                    visited |-> searchHeader.idx_visited,
                    threw |-> FALSE, crashed |-> FALSE])
    /\ ncalls' = ncalls + 1
    /\ UNCHANGED <<graphvars, passed, nullRead, searchHeader, prev, before>>

StepLists ==
    {cl \in ConnectionLists(Pairs(MaxMutId, FALSE), MaxStepCnts) :
        \A k \in 1 .. (Len(cl) - 1) : cl[k].from <= cl[k + 1].from}

StepInit ==
    \E connectionList \in StepLists :
        /\ Constructed(connectionList)
        /\ nullRead = SegFault

StepNext ==
    \/ \E index_start \in 0 .. (MaxMutId + 1) :
           \/ StartWalk("runBreadthFirst", index_start, "")
           \/ StartWalk("runDepthFirst", index_start, "")
           \/ \E searchFn \in Filters :
                  \/ StartWalk("runBreadthFirst_Filt", index_start, searchFn)
                  \/ StartWalk("runDepthFirst_Filt", index_start, searchFn)
    \/ BfsEnter
    \/ BfsCall
    \/ BfsMerge
    \/ BfsReturn
    \/ DfsEnter
    \/ DfsVisit
    \/ DfsReturn
    \/ WalkReturn

StepSpec == StepInit /\ [][StepNext]_vars /\ WF_vars(StepNext)

(***************************************************************************)
(* Traversal after traversal: the client calls entry points one after the  *)
(* other on the graph it constructed, each call stepping as above.         *)
(***************************************************************************)
\* a traversal called once the one before it has returned
WalkAgain(op, index_start, searchFn) ==
    /\ ncalls < MaxAgainCalls
    /\ ~last.threw
    /\ ~last.crashed
    /\ EntryPoint(op, index_start, searchFn)

AgainLists ==
    {cl \in ConnectionLists(Pairs(MaxMutId, FALSE), MaxAgainCnts) :
        \A k \in 1 .. (Len(cl) - 1) : cl[k].from <= cl[k + 1].from}

AgainInit ==
    \E connectionList \in AgainLists :
        /\ Constructed(connectionList)
        /\ nullRead = SegFault

AgainNext ==
    \/ \E index_start \in 0 .. (MaxMutId + 1) :
           \/ WalkAgain("runBreadthFirst", index_start, "")
           \/ WalkAgain("runDepthFirst", index_start, "")
           \/ \E searchFn \in Filters :
                  \/ WalkAgain("runBreadthFirst_Filt", index_start, searchFn)
                  \/ WalkAgain("runDepthFirst_Filt", index_start, searchFn)
    \/ BfsEnter
    \/ BfsCall
    \/ BfsMerge
    \/ BfsReturn
    \/ DfsEnter
    \/ DfsVisit
    \/ DfsReturn
    \/ WalkReturn

AgainSpec == AgainInit /\ [][AgainNext]_vars

(***************************************************************************)
(* Properties of the node operations and of optimizeCnts.                  *)
(***************************************************************************)
\* the receiver and the pointer argument of the latest call
A == last.self
B == last.arg

\* the latest call changed no adjacency list
ListsUnchanged == cnt_out = before.cnt_out /\ cnt_in = before.cnt_in

\* C1: in every state reached by calls that returned, for all nodes a and b,
\* b is in a's outbound list if and only if a is in b's inbound list.
C1_Symmetry ==
    last.threw \/
    \A a \in Nodes, b \in Nodes : InSeq(b, cnt_out[a]) <=> InSeq(a, cnt_in[b])

\* the number of distinct ordered (from, to) pairs of the outbound lists
DistinctPairs(out) ==
    Cardinality({pr \in Nodes \X Nodes : InSeq(pr[2], out[pr[1]])})

\* C3: after optimizeCnts() the returned count and the size of the cached
\* descriptor list equal the number of distinct ordered (from, to) pairs, and no
\* outbound list holds the same target twice.
C3_OptimizeRemovesDuplicates ==
    (last.op = "optimizeCnts") =>
        /\ ~last.threw
        /\ last.ret = DistinctPairs(before.cnt_out)
        /\ Len(calc_cnts) = DistinctPairs(before.cnt_out)
        /\ \A a \in Nodes, b \in Nodes : Occurrences(b, cnt_out[a]) <= 1

\* the step is A.severCnt(B) made right after A.establishCnt(B) added an edge
SeverAfterEstablish ==
    /\ last.op = "establishCnt"
    /\ B # nullptr
    /\ B # A
    /\ last'.op = "severCnt"
    /\ last'.self = A
    /\ last'.arg = B

\* the lists are as they were before the establishCnt of the previous step
Restored ==
    /\ ~last'.threw
    /\ cnt_out' = before.cnt_out
    /\ cnt_in' = before.cnt_in

\* C4 as claimed: for all distinct nodes A and B, parallel edges allowed,
\* A.establish(B) immediately followed by A.sever(B) leaves every list, as an
\* ordered sequence, as it was before the establish.
C4_InverseLaw_AsClaimed == [][SeverAfterEstablish => Restored]_vars

\* C4, amended: for all distinct nodes A and B such that, before the establish,
\* A.outbound holds no entry for B and B.inbound holds no entry for A,
\* A.establish(B) immediately followed by A.sever(B) leaves every list, as an
\* ordered sequence, as it was before the establish.
C4_InverseLaw ==
    [][(/\ SeverAfterEstablish
        /\ ~InSeq(B, before.cnt_out[A])
        /\ ~InSeq(A, before.cnt_in[B])) => Restored]_vars

\* a sever that followed the establish of a first edge from A to B, made when
\* both lists held other entries
C4_Witness ==
    /\ last.op = "severCnt"
    /\ ~last.threw
    /\ prev.op = "establishCnt"
    /\ prev.self = A
    /\ prev.arg = B
    /\ B # nullptr
    /\ B # A
    /\ Len(cnt_out[A]) > 0
    /\ Len(cnt_in[B]) > 0
    /\ ~InSeq(B, cnt_out[A])
    /\ ~InSeq(A, cnt_in[B])
    /\ Len(before.cnt_out[A]) = Len(cnt_out[A]) + 1

\* C5: A.sever(B), made when A.outbound holds an entry for B (and B.inbound one
\* for A), returns, having removed exactly the first occurrence of B from
\* A.outbound and exactly the first occurrence of A from B.inbound, and returns
\* A's new out-degree.
C5_SeverRemovesFirst ==
    (/\ last.op = "severCnt"
     /\ B # nullptr
     /\ B # A
     /\ ~last.threw
     /\ InSeq(B, before.cnt_out[A])
     /\ InSeq(A, before.cnt_in[B])) =>
        /\ cnt_out = [before.cnt_out EXCEPT ![A] =
                         RemoveAt(@, FirstPos(B, before.cnt_out[A]))]
        /\ cnt_in = [before.cnt_in EXCEPT ![B] =
                        RemoveAt(@, FirstPos(A, before.cnt_in[B]))]
        /\ last.ret = Len(cnt_out[A])

\* C8: A.establish(B) with B present and other than A appends B at the end of
\* A.outbound and A at the end of B.inbound, changes no other list and returns
\* A's new out-degree; with B absent or B = A no list changes and A's current
\* out-degree is returned.
C8_Establish ==
    (last.op = "establishCnt") =>
        IF B # nullptr /\ B # A
        THEN /\ Len(cnt_out[A]) = Len(before.cnt_out[A]) + 1
             /\ SubSeq(cnt_out[A], 1, Len(before.cnt_out[A])) = before.cnt_out[A]
             /\ cnt_out[A][Len(cnt_out[A])] = B
             /\ Len(cnt_in[B]) = Len(before.cnt_in[B]) + 1
             /\ SubSeq(cnt_in[B], 1, Len(before.cnt_in[B])) = before.cnt_in[B]
             /\ cnt_in[B][Len(cnt_in[B])] = A
             /\ \A n \in Identity : (n # A => cnt_out[n] = before.cnt_out[n])
                                 /\ (n # B => cnt_in[n] = before.cnt_in[n])
             /\ last.ret = Len(before.cnt_out[A]) + 1
             /\ ~last.threw
        ELSE /\ ListsUnchanged
             /\ last.ret = Len(before.cnt_out[A])
             /\ ~last.threw

\* an establish that added a parallel edge behind other entries of both lists
C8_Witness ==
    /\ last.op = "establishCnt"
    /\ B # nullptr
    /\ B # A
    /\ Len(before.cnt_out[A]) >= 2
    /\ Len(before.cnt_in[B]) >= 2
    /\ before.cnt_in[B][1] # A
    /\ last.ret = 3

\* C10: sever(other) with other absent, equal to self or not in self's outbound
\* list, and sever(position) and neighborAt(position) with position >=
\* out-degree, change no list; the sever calls return the unchanged out-degree
\* and neighborAt returns absent.
C10_SilentNoOps ==
    /\ (/\ last.op = "severCnt"
        /\ (B = nullptr \/ B = A \/ ~InSeq(B, before.cnt_out[A]))) =>
            (~last.threw /\ ListsUnchanged /\ last.ret = Len(before.cnt_out[A]))
    /\ (last.op = "severCnt_index" /\ last.arg >= Len(before.cnt_out[A])) =>
            (~last.threw /\ ListsUnchanged /\ last.ret = Len(before.cnt_out[A]))
    /\ (last.op = "traverseCnt" /\ last.arg >= Len(before.cnt_out[A])) =>
            (~last.threw /\ ListsUnchanged /\ last.ret = nullptr)

(***************************************************************************)
(* Properties of the traversals.  Reachability, hop distance and the       *)
(* depth-first order are stated over the outbound lists alone.             *)
(***************************************************************************)
Range(s) == {s[k] : k \in 1 .. Len(s)}

NoDuplicates(s) == \A p \in 1 .. Len(s), q \in 1 .. Len(s) : s[p] = s[q] => p = q

\* the targets of the outbound edges of the nodes of S
Successors(S) == UNION {Range(cnt_out[n]) : n \in S}

\* the nodes reachable from the nodes of S along outbound edges avoiding Avoid
RECURSIVE ReachAvoiding(_, _)
ReachAvoiding(S, Avoid) ==
    LET T == S \cup (Successors(S) \ Avoid)
    IN  IF T = S THEN S ELSE ReachAvoiding(T, Avoid)

Reach(start) == ReachAvoiding({start}, {})

\* the number of edges of a shortest path to n from the nodes of frontier,
\* which are d hops from the start; MaxId + 2 when there is no path
RECURSIVE Hops(_, _, _, _)
Hops(seen, frontier, n, d) ==
    IF n \in frontier THEN d
    ELSE IF frontier = {} THEN MaxId + 2
    ELSE Hops(seen \cup frontier, Successors(frontier) \ (seen \cup frontier), n, d + 1)

Dist(start, n) == Hops({}, {start}, n, 0)

\* the unrecorded outbound neighbours of n, in list order, when s[1..p] is recorded
Unrecorded(n, s, p) ==
    SelectSeq(cnt_out[n], LAMBDA m : m \notin {s[k] : k \in 1 .. p})

\* C2: for a start identity present in the graph, runBreadthFirst(start) and
\* runDepthFirst(start) return a sequence that holds every node reachable from
\* start along outbound edges, start included, exactly once, and no other node.
C2_ReachableExactlyOnce ==
    (/\ last.op \in {"runBreadthFirst", "runDepthFirst"}
     /\ InSeq(last.arg, indexes)) =>
        /\ ~last.threw
        /\ NoDuplicates(last.output)
        /\ Range(last.output) = Reach(last.arg)

\* a breadth-first traversal of four nodes over a cycle through the start
C2_Witness ==
    /\ last.op = "runBreadthFirst"
    /\ Len(last.output) = 4
    /\ \E n \in Range(last.output) : n # last.arg /\ InSeq(last.arg, cnt_out[n])
    /\ Dist(last.arg, last.output[4]) = 3

\* C6: in the output of runBreadthFirst(start) no node precedes a node that is
\* fewer hops from start than it is.
C6_LevelOrder ==
    (last.op = "runBreadthFirst" /\ InSeq(last.arg, indexes)) =>
        \A p \in 1 .. Len(last.output), q \in 1 .. Len(last.output) :
            p < q => Dist(last.arg, last.output[p]) <= Dist(last.arg, last.output[q])

\* a breadth-first traversal over three levels, the first neighbour of the start
\* having an edge to the next level and one back to the start
C6_Witness ==
    /\ last.op = "runBreadthFirst"
    /\ Len(last.output) = 4
    /\ Dist(last.arg, last.output[3]) = 1
    /\ Dist(last.arg, last.output[4]) = 2
    /\ InSeq(last.output[4], cnt_out[last.output[2]])
    /\ InSeq(last.arg, cnt_out[last.output[2]])

\* C7: in the output s of runDepthFirst(start), the node after s[p] is the first
\* unrecorded outbound neighbour of the latest of s[1..p] that has one, and the
\* nodes first discovered from s[p], those reachable from it without passing
\* through s[1..p-1], are exactly the block of s that starts at p.
C7_PreOrder ==
    (last.op = "runDepthFirst" /\ InSeq(last.arg, indexes)) =>
        LET s == last.output
        IN  /\ Len(s) > 0
            /\ s[1] = last.arg
            /\ \A p \in 1 .. Len(s) :
                LET open == {k \in 1 .. p : Unrecorded(s[k], s, p) # <<>>}
                    latest == CHOOSE k \in open : \A j \in open : j <= k
                    found == ReachAvoiding({s[p]}, {s[k] : k \in 1 .. (p - 1)})
                IN  /\ IF open = {} THEN p = Len(s)
                       ELSE p < Len(s) /\ s[p + 1] = Unrecorded(s[latest], s, p)[1]
                    /\ p + Cardinality(found) - 1 <= Len(s)
                    /\ found = {s[k] : k \in p .. (p + Cardinality(found) - 1)}

\* a depth-first traversal that descends two levels below the start and then
\* returns to the start for its second neighbour
C7_Witness ==
    /\ last.op = "runDepthFirst"
    /\ Len(last.output) = 4
    /\ InSeq(last.output[2], cnt_out[last.arg])
    /\ InSeq(last.output[3], cnt_out[last.output[2]])
    /\ ~InSeq(last.output[3], cnt_out[last.arg])
    /\ ~InSeq(last.output[4], cnt_out[last.output[3]])
    /\ ~InSeq(last.output[4], cnt_out[last.output[2]])
    /\ InSeq(last.output[4], cnt_out[last.arg])

TraversalOps ==
    {"runBreadthFirst", "runBreadthFirst_Filt", "runDepthFirst", "runDepthFirst_Filt"}

\* C9: each of the four traversal entry points, given a start identity that the
\* graph does not hold, returns the empty sequence, does not evaluate the filter
\* function, changes nothing of the graph and throws nothing.
C9_AbsentStart ==
    (last.op \in TraversalOps /\ ~InSeq(last.arg, indexes)) =>
        /\ last.output = <<>>
        /\ last.calls = <<>>
        /\ ~last.threw
        /\ Snapshot = before

\* a filtered depth-first traversal asked to start at an identity that a graph
\* of three nodes or more does not hold
C9_Witness ==
    /\ last.op = "runDepthFirst_Filt"
    /\ last.filter = "even"
    /\ ~InSeq(last.arg, indexes)
    /\ Len(indexes) >= 3
    /\ last.output = <<>>

(***************************************************************************)
(* Properties of sever(position), of the filtered traversals, of the       *)
(* search header, of optimizeCnts(prioFunc) and of construction.           *)
(***************************************************************************)
\* the neighbour at the position handed to the latest severCnt(uint32_t) call
SeveredNeighbour == before.cnt_out[A][last.arg + 1]

\* C11: A.sever(position) with position < out-degree removes exactly the
\* outbound entry at that position and exactly the first occurrence of A from
\* that neighbour's inbound list, leaves every other entry and the order
\* unchanged, and returns A's new out-degree.
C11_SeverPosition ==
    (last.op = "severCnt_index" /\ last.arg < Len(before.cnt_out[A])) =>
        /\ ~last.threw
        /\ InSeq(A, before.cnt_in[SeveredNeighbour])
        /\ cnt_out = [before.cnt_out EXCEPT ![A] = RemoveAt(@, last.arg + 1)]
        /\ cnt_in = [before.cnt_in EXCEPT ![SeveredNeighbour] =
                        RemoveAt(@, FirstPos(A, before.cnt_in[SeveredNeighbour]))]
        /\ last.ret = Len(before.cnt_out[A]) - 1

\* C11 where the lists were symmetric for A and the neighbour before the call
C11_SeverPosition_Symmetric ==
    (/\ last.op = "severCnt_index"
     /\ last.arg < Len(before.cnt_out[A])
     /\ InSeq(A, before.cnt_in[SeveredNeighbour])) => C11_SeverPosition

\* the plain breadth-first sequence from the start of the latest call
PlainBfs == runBreadthFirst(indexes, raw_ptrs, cnt_out, last.arg).output

\* the node that discovers n in a breadth-first traversal with sequence s: the
\* first node of s that has n in its outbound list, absent for the root
Discoverer(s, n) ==
    IF n = s[1] THEN nullptr
    ELSE s[CHOOSE k \in 1 .. Len(s) :
               /\ InSeq(n, cnt_out[s[k]])
               /\ \A j \in 1 .. (k - 1) : ~InSeq(n, cnt_out[s[j]])]

\* C12: runBreadthFirst(start, searchFunc) evaluates searchFunc exactly once
\* for every discovered node, in the order of discovery, on (absent, root) for
\* the root and on (discovering node, neighbour) for every other node, and
\* returns the plain runBreadthFirst(start) sequence restricted to the nodes
\* whose evaluation returned true, in the same order.
C12_BfsFilterOnce ==
    (last.op = "runBreadthFirst_Filt" /\ InSeq(last.arg, indexes)) =>
        /\ ~last.threw
        /\ Len(last.calls) = Len(PlainBfs)
        /\ \A k \in 1 .. Len(PlainBfs) :
               last.calls[k] = <<Discoverer(PlainBfs, PlainBfs[k]), PlainBfs[k]>>
        /\ last.output =
               SelectSeq(PlainBfs,
                   LAMBDA n : searchFunc(last.filter, Discoverer(PlainBfs, n), n))

\* a filtered breadth-first traversal of four nodes that rejects a node and
\* accepts a node discovered from the rejected one
C12_Witness ==
    /\ last.op = "runBreadthFirst_Filt"
    /\ Len(last.calls) = 4
    /\ \E k \in 1 .. 4 :
           /\ ~InSeq(last.calls[k][1], last.output)
           /\ last.calls[k][1] # nullptr
           /\ InSeq(last.calls[k][2], last.output)

\* C13: runDepthFirst(start, searchFunc) holds the start node in its output if
\* and only if searchFunc(absent, start) returns true.
C13_DfsFilterRoot ==
    (last.op = "runDepthFirst_Filt" /\ InSeq(last.arg, indexes)) =>
        (InSeq(last.arg, last.output) <=> searchFunc(last.filter, nullptr, last.arg))

\* the identities handed to testAdd before the latest call
Earlier == SubSeq(passed, 1, Len(passed) - 1)

\* C14: on a fresh header, in any order of identities, testAdd returns true if
\* and only if its identity was handed to no earlier call, and after every call
\* min_idx and max_idx are the least and the greatest identity recorded.
C14_ExactVisitedSet ==
    (last.op = "testAdd") =>
        /\ last.ret <=> ~InSeq(last.arg, Earlier)
        /\ Range(searchHeader.idx_visited) = Range(passed)
        /\ NoDuplicates(searchHeader.idx_visited)
        /\ \A n \in Range(passed) : searchHeader.min_idx <= n /\ n <= searchHeader.max_idx
        /\ searchHeader.min_idx \in Range(passed)
        /\ searchHeader.max_idx \in Range(passed)

\* a repeated identity strictly inside the window is refused by the scan of
\* idx_visited, the window having been opened by a first identity above 0
C14_Witness ==
    /\ last.op = "testAdd"
    /\ ~last.ret
    /\ Len(passed) >= 4
    /\ passed[1] > 0
    /\ searchHeader.min_idx < last.arg
    /\ last.arg < searchHeader.max_idx

\* the (from, to) pairs of the cached descriptor list, in order
CachedPairs == [k \in 1 .. Len(calc_cnts) |-> <<calc_cnts[k].from, calc_cnts[k].to>>]

\* C15: optimizeCnts(prioFunc) hands prioFunc exactly the (from, to) pairs of
\* the descriptors it rebuilds, once each and in their order, stores each result
\* as the priority of its descriptor, and, when it returns, has rebuilt a
\* descriptor for every distinct pair; optimizeCnts() gives every rebuilt
\* descriptor the priority 0.
C15_Priorities ==
    /\ (last.op = "optimizeCnts_prio") =>
        /\ last.calls = CachedPairs
        /\ \A k \in 1 .. Len(calc_cnts) :
               calc_cnts[k].priority =
                   prioFunc(last.filter, calc_cnts[k].from, calc_cnts[k].to)
        /\ ~last.threw =>
               /\ last.ret = Len(calc_cnts)
               /\ \A a \in Nodes, b \in Nodes :
                      InSeq(b, before.cnt_out[a]) => InSeq(<<a, b>>, CachedPairs)
    /\ (last.op = "optimizeCnts") =>
        /\ \A k \in 1 .. Len(calc_cnts) : calc_cnts[k].priority = 0
        /\ ~last.threw =>
               \A a \in Nodes, b \in Nodes :
                   InSeq(b, before.cnt_out[a]) => InSeq(<<a, b>>, CachedPairs)

\* optimizeCnts(prioFunc) that judged an entry a duplicate and rebuilt three
\* descriptors, on a graph whose construction priorities were other than the
\* computed ones
C15_Witness ==
    /\ last.op = "optimizeCnts_prio"
    /\ last.filter = "order"
    /\ ~last.threw
    /\ Len(last.calls) = 3
    /\ \E a \in Nodes : Len(cnt_out[a]) < Len(before.cnt_out[a])
    /\ \E k \in 1 .. 3 : before.calc_cnts[k].priority # calc_cnts[k].priority

\* the identities a connection list mentions, from before to within a
\* descriptor, each at its first appearance only
RECURSIVE FirstAppearances(_, _, _)
FirstAppearances(cl, k, acc) ==
    IF k > Len(cl) THEN acc
    ELSE LET a == IF InSeq(cl[k].from, acc) THEN acc ELSE Append(acc, cl[k].from)
             b == IF InSeq(cl[k].to, a) THEN a ELSE Append(a, cl[k].to)
         IN  FirstAppearances(cl, k + 1, b)

\* the descriptors of cl with from # to
Edges(cl) == SelectSeq(cl, LAMBDA d : d.from # d.to)

\* the to of the edges of cl that leave n, in descriptor order
EdgesOut(cl, n) ==
    LET es == SelectSeq(Edges(cl), LAMBDA d : d.from = n)
    IN  [k \in 1 .. Len(es) |-> es[k].to]

\* the from of the edges of cl that enter n, in descriptor order
EdgesIn(cl, n) ==
    LET es == SelectSeq(Edges(cl), LAMBDA d : d.to = n)
    IN  [k \in 1 .. Len(es) |-> es[k].from]

\* C16: after c_Graph(prefill, connectionList) the node collection holds one
\* node per identity mentioned, in order of first appearance, each with the
\* payload prefill; every descriptor with from # to gave one outbound entry to
\* from and one inbound entry to to, in descriptor order, duplicates included;
\* and the cached descriptor list is connectionList.
C16_Construction ==
    (last.op = "c_Graph") =>
        LET cl == last.arg
        IN  /\ indexes = FirstAppearances(cl, 1, <<>>)
            /\ raw_ptrs = indexes
            /\ NoDuplicates(indexes)
            /\ count = Len(indexes)
            /\ nodeData = [k \in 1 .. Len(indexes) |-> last.prefill]
            /\ \A n \in Identity : /\ cnt_out[n] = EdgesOut(cl, n)
                                   /\ cnt_in[n] = EdgesIn(cl, n)
            /\ calc_cnts = cl
            /\ ~last.threw

\* a construction from three descriptors: a repeated edge, then a descriptor
\* whose to was mentioned earlier and whose from is new
C16_Witness ==
    /\ last.op = "c_Graph"
    /\ last.prefill = 7
    /\ Len(last.arg) = 3
    /\ last.arg[1].from = last.arg[2].from
    /\ last.arg[1].to = last.arg[2].to
    /\ last.arg[1].from # last.arg[1].to
    /\ last.arg[3].to = last.arg[1].from
    /\ ~InSeq(last.arg[3].from, <<last.arg[1].from, last.arg[1].to>>)
    /\ Len(indexes) = 3

\* C17: in every state reached through construction, establishCnt, severCnt
\* and optimizeCnts, no node is in its own outbound list or its own inbound
\* list.
C17_NoSelfLoops ==
    \A n \in Identity : ~InSeq(n, cnt_out[n]) /\ ~InSeq(n, cnt_in[n])

\* a node of a graph constructed with a descriptor from == to was asked to
\* establish a connection to itself, after a sever, while it has connections
C17_Witness ==
    /\ last.op = "establishCnt"
    /\ A = B
    /\ prev.op = "severCnt"
    /\ \E k \in 1 .. Len(calc_cnts) : calc_cnts[k].from = calc_cnts[k].to
    /\ Len(cnt_out[A]) > 0

(***************************************************************************)
(* Null entries in an outbound list.                                       *)
(***************************************************************************)
\* the outbound lists without their null entries
Stripped == [n \in DOMAIN cnt_out |-> SelectSeq(cnt_out[n], NotNull)]

\* what the latest traversal returns on the graph without the null entries
OnStripped ==
    CASE last.op = "runBreadthFirst" ->
             runBreadthFirst(indexes, raw_ptrs, Stripped, last.arg)
      [] last.op = "runBreadthFirst_Filt" ->
             runBreadthFirst_Filt(indexes, raw_ptrs, Stripped, last.arg, last.filter)
      [] last.op = "runDepthFirst" ->
             runDepthFirst(indexes, raw_ptrs, Stripped, last.arg)
      [] last.op = "runDepthFirst_Filt" ->
             runDepthFirst_Filt(indexes, raw_ptrs, Stripped, last.arg, last.filter)

NullSkipped ==
    /\ ~last.crashed
    /\ ~last.threw
    /\ last.output = OnStripped.output
    /\ last.calls = OnStripped.calls

\* C18: in each of the four traversals a null entry of an outbound list is
\* skipped without error and the walk goes on with the remaining neighbours:
\* the traversal ends normally and returns what it returns on the graph whose
\* outbound lists lack the null entries, having asked the filter the same
\* questions.
C18_NullSkipped == last.op \in TraversalOps => NullSkipped

\* the part of C18 that the breadth-first traversals keep
C18_NullSkipped_Bfs ==
    last.op \in {"runBreadthFirst", "runBreadthFirst_Filt"} => NullSkipped

(***************************************************************************)
(* The capacity ceiling of the constructor.                                *)
(***************************************************************************)
\* the identities named by the first k descriptors of cl
Named(cl, k) == {cl[m].from : m \in 1 .. k} \cup {cl[m].to : m \in 1 .. k}

\* the first descriptor of cl with an endpoint that would be stored at a
\* position >= ceiling (positions are given in order of first appearance);
\* Len(cl) + 1 when there is none
FirstOver(cl, ceiling) ==
    LET over == {k \in 1 .. Len(cl) : Cardinality(Named(cl, k)) > ceiling}
    IN  IF over = {} THEN Len(cl) + 1
        ELSE CHOOSE k \in over : \A m \in over : k <= m

\* C19: with the ceiling scaled to ScaledCeiling, construction creates no node
\* at a storage position >= ScaledCeiling, and from the first descriptor with
\* an endpoint that would be stored at such a position onward it adds no node,
\* no edge and no cached descriptor and raises no error: the graph is the one
\* constructed from the descriptors before that one.
C19_Ceiling ==
    last.op = "c_Graph" =>
        /\ ~last.threw
        /\ Len(raw_ptrs) <= ScaledCeiling
        /\ Snapshot = c_Graph_ceiling(last.prefill,
                           SubSeq(last.arg, 1, FirstOver(last.arg, ScaledCeiling) - 1),
                           NodeCeiling)

(***************************************************************************)
(* The filtered depth-first traversal and its repeated filtering.          *)
(***************************************************************************)
\* The depth-first tree of the walk from the node n on, position i (1-based)
\* of n's outbound list being next: seen is the nodes discovered so far,
\* parent the discovered node -> discovering node pairs.
RECURSIVE DfsTree(_, _, _)
DfsTree(n, i, st) ==
    IF i > Len(cnt_out[n])
    THEN st
    ELSE LET m == cnt_out[n][i]
         IN  IF m \in st.seen
             THEN DfsTree(n, i + 1, st)
             ELSE DfsTree(n, i + 1,
                      DfsTree(m, 1, [seen |-> st.seen \cup {m},
                                     parent |-> st.parent \cup {<<m, n>>}]))

\* the tree of the walk from start
TreeOf(start) == DfsTree(start, 1, [seen |-> {start}, parent |-> {}])

\* the ancestors of v in the tree t, from its parent up to the root
RECURSIVE Ancestors(_, _)
Ancestors(t, v) ==
    IF \E pr \in t.parent : pr[1] = v
    THEN LET p == (CHOOSE pr \in t.parent : pr[1] = v)[2]
         IN  <<p>> \o Ancestors(t, p)
    ELSE <<>>

\* With the ancestor chain a0 = start, ..., a(d-1) = parent of v: the previous
\* nodes of the evaluations the claim lists for v, in the order they are made:
\* a(d-1) by the parent frame, then a(d-1), a(d-2), ..., a1 by the frames of
\* a(d-2), a(d-3), ..., a0.
Listed(t, v) ==
    LET anc == Ancestors(t, v)
    IN  <<anc[1]>> \o SubSeq(anc, 1, Len(anc) - 1)

\* the previous nodes of the evaluations of v that the latest call made
Made(v) ==
    LET of_v == SelectSeq(last.calls, LAMBDA c : c[2] = v)
    IN  [k \in 1 .. Len(of_v) |-> of_v[k][1]]

\* the listed evaluations up to the first that returns false
UpToFalse(f, prvs, v) ==
    LET false == {k \in 1 .. Len(prvs) : ~searchFunc(f, prvs[k], v)}
    IN  IF false = {} THEN prvs
        ELSE SubSeq(prvs, 1, CHOOSE k \in false : \A m \in false : k <= m)

AllTrue(f, prvs, v) == \A k \in 1 .. Len(prvs) : searchFunc(f, prvs[k], v)

FilteredDfs ==
    /\ last.op = "runDepthFirst_Filt"
    /\ last.arg \in Nodes

RECURSIVE QueueScan(_, _, _)
QueueScan(lst, i, st) ==
    IF i > Len(lst)
    THEN st
    ELSE LET m == lst[i]
         IN  IF m \in st.marked
             THEN QueueScan(lst, i + 1, st)
             ELSE QueueScan(lst, i + 1,
                            [marked |-> st.marked \cup {m},
                             queue |-> Append(st.queue, m),
                             output |-> Append(st.output, m)])

\* the walk: the head of the queue is taken off and its outbound list scanned
RECURSIVE QueueWalk(_)
QueueWalk(st) ==
    IF st.queue = <<>>
    THEN st.output
    ELSE QueueWalk(QueueScan(cnt_out[Head(st.queue)], 1,
                             [st EXCEPT !.queue = Tail(@)]))

\* the sequence of a queue-driven breadth-first walk from start
QueueBfs(start) ==
    QueueWalk([marked |-> {start}, queue |-> <<start>>, output |-> <<start>>])

\* C21: runBreadthFirst(start) returns exactly the sequence of a breadth-first
\* walk driven by a first-in first-out queue that marks a node when it is first
\* discovered and scans each outbound list in stored order.
C21_QueueBfs ==
    (last.op = "runBreadthFirst" /\ last.arg \in Nodes) =>
        /\ ~last.threw
        /\ last.output = QueueBfs(last.arg)

\* a breadth-first traversal of five nodes: the two nodes of level one are
\* put out in the order of the start's outbound list, which is not that of
\* their identities, and each discovers one node of level two
C21_Witness ==
    /\ last.op = "runBreadthFirst"
    /\ last.arg \in Nodes
    /\ Len(last.output) = 5
    /\ last.output[2] > last.output[3]
    /\ Dist(last.arg, last.output[3]) = 1
    /\ Dist(last.arg, last.output[4]) = 2
    /\ InSeq(last.output[4], cnt_out[last.output[2]])
    /\ ~InSeq(last.output[4], cnt_out[last.output[3]])
    /\ InSeq(last.output[5], cnt_out[last.output[3]])
    /\ ~InSeq(last.output[5], cnt_out[last.output[2]])

(***************************************************************************)
(* Termination of the traversals.                                          *)
(***************************************************************************)
\* what the recursive operators return for the traversal that last holds
Recomputed ==
    CASE last.op = "runBreadthFirst" ->
             runBreadthFirst(indexes, raw_ptrs, cnt_out, last.arg)
      [] last.op = "runBreadthFirst_Filt" ->
             runBreadthFirst_Filt(indexes, raw_ptrs, cnt_out, last.arg, last.filter)
      [] last.op = "runDepthFirst" ->
             runDepthFirst(indexes, raw_ptrs, cnt_out, last.arg)
      [] last.op = "runDepthFirst_Filt" ->
             runDepthFirst_Filt(indexes, raw_ptrs, cnt_out, last.arg, last.filter)

\* the latest traversal has returned
WalkDone == ~Walking /\ last.op \in TraversalOps

\* as it returns, the traversal has thrown nothing, its result is the one of
\* the recursive definition, and a breadth-first traversal has emptied
\* visit_queue
ReturnedClean ==
    WalkDone =>
        /\ ~last.threw /\ ~last.crashed
        /\ last.output = Recomputed.output
        /\ last.calls = Recomputed.calls
        /\ last.visited = Recomputed.visited
        /\ last.op \in BfsOps => searchHeader.visit_queue = <<>>

\* C22: every traversal, breadth-first or depth-first, plain or filtered, that
\* is started on a graph (cycles, mutual edges and parallel edges included)
\* returns; when a breadth-first traversal returns, visit_queue is empty.
C22_Terminates == [](ReturnedClean) /\ (Walking ~> WalkDone)

\* runBreadthFirst has returned the three nodes of a cycle, from one of them
C22_Witness ==
    /\ WalkDone
    /\ last.op = "runBreadthFirst"
    /\ Len(last.output) = 3
    /\ \A n \in Nodes : Len(cnt_out[n]) = 1
    /\ Reach(last.arg) = Nodes
    /\ searchHeader.visit_queue = <<>>

(***************************************************************************)
(* Range safety of severCnt(other).                                        *)
(***************************************************************************)
\* C23: in every state reached from a constructed graph by establishCnt,
\* severCnt and optimizeCnts calls, A.severCnt(B) reads no list out of range:
\* the call completes and throws nothing.
C23_SeverInRange ==
    last.op = "severCnt" => ~last.threw

(***************************************************************************)
(* optimizeCnts: what it keeps, what it caches, and its repetition.        *)
(***************************************************************************)
\* the ordered (from, to) pairs that the outbound lists out hold
PairsOf(out) == {pr \in Nodes \X Nodes : InSeq(pr[2], out[pr[1]])}

\* the nodes that runBreadthFirst returns from start over the outbound lists out
BfsNodes(out, start) ==
    Range(runBreadthFirst(indexes, raw_ptrs, out, start).output)

\* C24: optimizeCnts() removes no last edge of an ordered pair: the outbound
\* lists hold the same set of (from, to) pairs before and after the call, and
\* runBreadthFirst returns the same set of nodes from every start.
C24_KeepsPairs ==
    last.op = "optimizeCnts" =>
        /\ PairsOf(cnt_out) = PairsOf(before.cnt_out)
        /\ \A start \in Nodes :
               BfsNodes(cnt_out, start) = BfsNodes(before.cnt_out, start)

\* the (from, to) pairs of the outbound entries, node by node in storage
\* order from position k (1-based) on, each list in its own order
RECURSIVE Adjacency(_)
Adjacency(k) ==
    IF k > Len(raw_ptrs)
    THEN <<>>
    ELSE LET n == raw_ptrs[k]
         IN  [m \in 1 .. Len(cnt_out[n]) |-> <<n, cnt_out[n][m]>>] \o Adjacency(k + 1)

\* the (from, to) pairs of the cached descriptors, in their order
Cached == [k \in 1 .. Len(calc_cnts) |-> <<calc_cnts[k].from, calc_cnts[k].to>>]

\* C25: when optimizeCnts() has returned, the cached descriptors, taken node by
\* node in storage order, list the targets of each node's outbound list in the
\* same order and with the same multiplicity, and the returned count is the
\* total number of outbound entries.
C25_CacheAgrees ==
    (last.op = "optimizeCnts" /\ ~last.threw) =>
        /\ Cached = Adjacency(1)
        /\ last.ret = Len(Adjacency(1))

\* the latest call is an optimizeCnts() made right after an optimizeCnts()
OptimizedTwice == last.op = "optimizeCnts" /\ prev.op = "optimizeCnts"

\* C26: an optimizeCnts() call made right after another returns the same count
\* and leaves every outbound list, every inbound list and the cached
\* descriptor list as the first call left them.
C26_Idempotent ==
    OptimizedTwice =>
        /\ ~last.threw
        /\ last.ret = prev.ret
        /\ cnt_out = before.cnt_out
        /\ cnt_in = before.cnt_in
        /\ calc_cnts = before.calc_cnts

(***************************************************************************)
(* Multiplicities of the edges in the two directions.                      *)
(***************************************************************************)
\* C27: in every state reached from a constructed graph by establishCnt,
\* severCnt(other), severCnt(position) and optimizeCnts calls that returned,
\* for all nodes A and B, B is in A's outbound list as many times as A is in
\* B's inbound list.
C27_Multiplicities ==
    ~last.threw =>
        \A a \in Nodes, b \in Nodes :
            Occurrences(b, cnt_out[a]) = Occurrences(a, cnt_in[b])

(***************************************************************************)
(* What a filter leaves untouched.                                         *)
(***************************************************************************)
\* the latest call is a filtered traversal from a node of the graph
FilteredWalk == last.op \in FilteredOps /\ last.arg \in Nodes

\* what the plain traversal of the same kind returns from the same start
PlainCounterpart ==
    IF last.op = "runBreadthFirst_Filt"
    THEN runBreadthFirst(indexes, raw_ptrs, cnt_out, last.arg)
    ELSE runDepthFirst(indexes, raw_ptrs, cnt_out, last.arg)

\* C28: a filtered traversal, breadth-first or depth-first, records as visited
\* the same identities in the same order as the plain traversal from the same
\* start, whatever the filter rejects: every newly recorded neighbour is
\* expanded.  (The recorded identities are those the plain traversal returns,
\* the nodes reachable from the start; the output is taken from them.)
C28_FilterExploresAll ==
    FilteredWalk =>
        /\ last.visited = PlainCounterpart.visited
        /\ last.visited = PlainCounterpart.output
        /\ Range(last.visited) = Reach(last.arg)
        /\ Range(last.output) \subseteq Range(last.visited)

\* v is in the output, r is not the start and was rejected, and every path
\* from the start to v goes through r
ThroughRejected(v, r) ==
    /\ InSeq(v, last.output)
    /\ r # last.arg
    /\ ~InSeq(r, last.output)
    /\ InSeq(r, last.visited)
    /\ v \notin ReachAvoiding({last.arg}, {r})

\* a filtered breadth-first traversal put out a node that is reachable only
\* through a node it rejected
C28_Witness ==
    /\ FilteredWalk
    /\ last.op = "runBreadthFirst_Filt"
    /\ \E v \in Nodes, r \in Nodes : ThroughRejected(v, r)

\* the same for a filtered depth-first traversal
C28_Witness_Dfs ==
    /\ FilteredWalk
    /\ last.op = "runDepthFirst_Filt"
    /\ \E v \in Nodes, r \in Nodes : ThroughRejected(v, r)

(***************************************************************************)
(* Traversals leave the graph alone and carry nothing over.                *)
(***************************************************************************)
\* the latest two calls are returned traversals by the same entry point with
\* the same arguments
SameCallTwice ==
    /\ ~Walking
    /\ ncalls = 2
    /\ last.op \in TraversalOps
    /\ prev.op = last.op
    /\ prev.arg = last.arg
    /\ prev.filter = last.filter

\* C29: a traversal, at each of its steps and at its return, leaves every
\* outbound list, every inbound list and calc_cnts as they were when it was
\* called, and the second of two consecutive identical traversal calls
\* returns the sequence the first returned.
C29_ReadOnlyStateless ==
    /\ (Walking \/ last.op \in TraversalOps) =>
           /\ cnt_out = before.cnt_out
           /\ cnt_in = before.cnt_in
           /\ calc_cnts = before.calc_cnts
           /\ Snapshot = before
    /\ SameCallTwice =>
           /\ last.threw = prev.threw
           /\ last.output = prev.output

\* the same traversal returned the same three nodes twice on a graph with a
\* cycle
C29_Witness ==
    /\ SameCallTwice
    /\ Len(last.output) = 3
    /\ last.output = prev.output
    /\ last.arg \in Successors(Successors({last.arg}))
    /\ Snapshot = before

====
